---------------------------- MODULE Spec2Model ----------------------------
(***************************************************************************)
(* A model of retire_sim: the month-by-month household simulation          *)
(* (model.py: simulate, get_income_at_age, get_expense_at_age) and the     *)
(* tax function it calls (israeli_tax.py).                                 *)
(*                                                                         *)
(* Number representation.  The program computes in binary floating point.  *)
(* The model computes in integers:                                         *)
(*   - an age is a whole number of ticks, TicksPerMonth ticks to a month,  *)
(*     so "month / 12" years is month * TicksPerMonth ticks and ages that  *)
(*     fall between two simulated months exist;                            *)
(*   - money is whole shekels; a product with a rate and a quotient are    *)
(*     rounded down to the shekel;                                         *)
(*   - pension and hishtalmut rates are per mille (0.06 is 60);            *)
(*   - r_annual_real is the annual return as a whole multiple of 100%,     *)
(*     restricted to the values whose 12th root is a whole number, so      *)
(*     that (1 + r) ** (1/12) - 1 is computed exactly.                     *)
(***************************************************************************)
EXTENDS Integers, Sequences, FiniteSets, TLC

\* Age resolution of the model: ticks per simulated month.
TicksPerMonth == 2

\* The largest planning horizon (end_age) of the checked runs, in ticks.
Horizon == 13

\* compare_scenarios is checked on lists of at most MaxAgeListLen ages.
MaxAgeListLen == 3

\* The resolver is checked on schedules of at most MaxScheduleLen entries
\* with ages, and at queried ages, up to MaxQueryAge.
MaxScheduleLen == 3
MaxQueryAge == 3

\* max of two numbers (Python max) and min (Python min).
Max(a, b) == IF a >= b THEN a ELSE b
Min(a, b) == IF a <= b THEN a ELSE b

\* Python 3 round(num / den) for den > 0: round half to even.
PyRound(num, den) ==
    LET q == num \div den
        r == num % den
    IN  IF 2 * r < den THEN q
        ELSE IF 2 * r > den THEN q + 1
        ELSE IF q % 2 = 0 THEN q ELSE q + 1

(***************************************************************************)
(* israeli_tax.py                                                          *)
(***************************************************************************)
\* ISRAELI_TAX_BRACKETS: threshold (annual), rate in percent, base_tax.
ISRAELI_TAX_BRACKETS ==
    << [threshold |-> 0,      rate |-> 10, base_tax |-> 0],
       [threshold |-> 84120,  rate |-> 14, base_tax |-> 8412],
       [threshold |-> 120720, rate |-> 20, base_tax |-> 13536],
       [threshold |-> 193800, rate |-> 31, base_tax |-> 28152],
       [threshold |-> 269280, rate |-> 35, base_tax |-> 51551],
       [threshold |-> 560280, rate |-> 47, base_tax |-> 153401],
       [threshold |-> 721560, rate |-> 50, base_tax |-> 229203] >>

\* NATIONAL_INSURANCE: rates in 1/10000, thresholds monthly.
NATIONAL_INSURANCE ==
    [rate_low |-> 427, rate_high |-> 1217,
     threshold_low_monthly |-> 7522, cap_monthly |-> 50695]

\* The loop of calculate_income_tax from bracket i on; the result is the
\* annual tax times 100 (rates are percent).
RECURSIVE IncomeTaxFrom(_, _)
IncomeTaxFrom(annual_income, i) ==
    LET bracket == ISRAELI_TAX_BRACKETS[i]
    IN  IF i = Len(ISRAELI_TAX_BRACKETS)
        THEN IF annual_income > bracket.threshold
             THEN bracket.base_tax * 100
                  + (annual_income - bracket.threshold) * bracket.rate
             ELSE 0
        ELSE IF annual_income <= ISRAELI_TAX_BRACKETS[i + 1].threshold
             THEN bracket.base_tax * 100
                  + (annual_income - bracket.threshold) * bracket.rate
             ELSE IncomeTaxFrom(annual_income, i + 1)

\* calculate_income_tax, times 100.
calculate_income_tax(annual_income) ==
    IF annual_income <= 0 THEN 0 ELSE IncomeTaxFrom(annual_income, 1)

\* calculate_national_insurance without the cap on the income, times 10000.
calculate_national_insurance_Uncapped(monthly_income) ==
    IF monthly_income <= 0 THEN 0
    ELSE IF monthly_income <= NATIONAL_INSURANCE.threshold_low_monthly
         THEN monthly_income * NATIONAL_INSURANCE.rate_low
         ELSE NATIONAL_INSURANCE.threshold_low_monthly * NATIONAL_INSURANCE.rate_low
              + (monthly_income - NATIONAL_INSURANCE.threshold_low_monthly)
                * NATIONAL_INSURANCE.rate_high

\* calculate_national_insurance, times 10000.
calculate_national_insurance(monthly_income) ==
    IF monthly_income <= 0 THEN 0
    ELSE LET capped_income == Min(monthly_income, NATIONAL_INSURANCE.cap_monthly)
         IN  IF capped_income <= NATIONAL_INSURANCE.threshold_low_monthly
             THEN capped_income * NATIONAL_INSURANCE.rate_low
             ELSE NATIONAL_INSURANCE.threshold_low_monthly * NATIONAL_INSURANCE.rate_low
                  + (capped_income - NATIONAL_INSURANCE.threshold_low_monthly)
                    * NATIONAL_INSURANCE.rate_high

\* calculate_monthly_tax_from_gross: income tax / 12 + national insurance,
\* in whole shekels.  With X the annual tax times 100 and Y the insurance
\* times 10000 this is (25 X + 3 Y) / 30000, computed from the quotients and
\* remainders of X and Y so that no intermediate exceeds 32 bits.
calculate_monthly_tax_from_gross(gross_monthly_income) ==
    IF gross_monthly_income <= 0 THEN 0
    ELSE LET annual_income == gross_monthly_income * 12
             X == calculate_income_tax(annual_income)
             Y == calculate_national_insurance(gross_monthly_income)
         IN  X \div 1200 + Y \div 10000
             + (25 * (X % 1200) + 3 * (Y % 10000)) \div 30000

(***************************************************************************)
(* model.py: the schedule resolver                                         *)
(***************************************************************************)
\* applicable_changes: the entries with sch_age <= age, in list order.
RECURSIVE ApplicableChanges(_, _)
ApplicableChanges(age, schedule) ==
    IF schedule = << >> THEN << >>
    ELSE LET rest == ApplicableChanges(age, Tail(schedule))
         IN  IF Head(schedule)[1] <= age THEN << Head(schedule) >> \o rest
             ELSE rest

\* get_income_at_age returning the first applicable change, not the last.
get_income_at_age_First(age, base_income, income_schedule) ==
    IF income_schedule = << >> THEN base_income
    ELSE LET applicable_changes == ApplicableChanges(age, income_schedule)
         IN  IF applicable_changes # << >>
             THEN applicable_changes[1][2]
             ELSE base_income

\* get_income_at_age ignoring the schedule: the base income at every age.
get_income_at_age_BaseIncome(age, base_income, income_schedule) == base_income

\* get_income_at_age; an absent (None) schedule is the empty sequence.
get_income_at_age(age, base_income, income_schedule) ==
    IF income_schedule = << >> THEN base_income
    ELSE LET applicable_changes == ApplicableChanges(age, income_schedule)
         IN  IF applicable_changes # << >>
             THEN applicable_changes[Len(applicable_changes)][2]
             ELSE base_income

\* get_expense_at_age.
get_expense_at_age(age, base_expense, expense_schedule) ==
    IF expense_schedule = << >> THEN base_expense
    ELSE LET applicable_changes == ApplicableChanges(age, expense_schedule)
         IN  IF applicable_changes # << >>
             THEN applicable_changes[Len(applicable_changes)][2]
             ELSE base_expense

(***************************************************************************)
(* model.py: Params and Result                                             *)
(***************************************************************************)
\* The whole 12th root of x, searched upwards from g.
RECURSIVE Root12From(_, _)
Root12From(x, g) == IF (g + 1) ^ 12 <= x THEN Root12From(x, g + 1) ELSE g

\* Params.r_month: (1 + r_annual_real) ** (1/12) - 1.
r_month(params) == Root12From(1 + params.r_annual_real, 1) - 1

\* A reason string: its fixed text (kind) and the two numbers formatted in.
Reason(kind, x, y) == [kind |-> kind, x |-> x, y |-> y]

NoReason == Reason("", 0, 0)

\* Result(ok=False, reason=..., df=pd.DataFrame()): every other field keeps
\* its dataclass default.
Rejected(reason) ==
    [ok |-> FALSE, reason |-> reason, df |-> << >>,
     pension_at_start |-> 0, pension_income_month |-> 0,
     spouse_pension_at_start |-> 0, spouse_pension_income_month |-> 0,
     liquid_end |-> 0, liquid_at_pension_start |-> 0]

\* "if spouse_retire_age is None: spouse_retire_age = params.spouse_retire_age";
\* the optional argument is << >> (None) or << age >>.
SpouseRetireAge(params, spouse_retire_age) ==
    IF spouse_retire_age = << >> THEN params.spouse_retire_age
    ELSE spouse_retire_age[1]

(***************************************************************************)
(* model.py: simulate, input validation                                    *)
(***************************************************************************)
\* ValidateRetireAges with ">=" for the pension start ages: retiring exactly
\* at the pension start age is rejected.
ValidateRetireAges_Strict(retire_age, params, spouse_retire_age) ==
    IF retire_age < params.age_now
    THEN Reason("Person 1 retirement age cannot be before current age", 0, 0)
    ELSE IF spouse_retire_age < params.spouse_age_now
    THEN Reason("Person 2 retirement age cannot be before current age", 0, 0)
    ELSE IF retire_age >= params.pension_start_age
    THEN Reason("Person 1 retirement age cannot be after pension start age", 0, 0)
    ELSE IF spouse_retire_age >= params.spouse_pension_start_age
    THEN Reason("Person 2 retirement age cannot be after pension start age", 0, 0)
    ELSE NoReason

\* ValidateRetireAges without the two pension start age checks: a
\* retirement age after the pension start age is accepted.
ValidateRetireAges_CurrentAgeOnly(retire_age, params, spouse_retire_age) ==
    IF retire_age < params.age_now
    THEN Reason("Person 1 retirement age cannot be before current age", 0, 0)
    ELSE IF spouse_retire_age < params.spouse_age_now
    THEN Reason("Person 2 retirement age cannot be before current age", 0, 0)
    ELSE NoReason

\* The four retirement-age checks, in the order of the code.
ValidateRetireAges(retire_age, params, spouse_retire_age) ==
    IF retire_age < params.age_now
    THEN Reason("Person 1 retirement age cannot be before current age", 0, 0)
    ELSE IF spouse_retire_age < params.spouse_age_now
    THEN Reason("Person 2 retirement age cannot be before current age", 0, 0)
    ELSE IF retire_age > params.pension_start_age
    THEN Reason("Person 1 retirement age cannot be after pension start age", 0, 0)
    ELSE IF spouse_retire_age > params.spouse_pension_start_age
    THEN Reason("Person 2 retirement age cannot be after pension start age", 0, 0)
    ELSE NoReason

\* The loop over one person's income schedule: the first failing check of
\* the first failing entry.
RECURSIVE ValidateIncomeSchedule(_, _, _, _)
ValidateIncomeSchedule(schedule, now, retire, person) ==
    IF schedule = << >> THEN NoReason
    ELSE LET schedule_age == Head(schedule)[1]
             schedule_income == Head(schedule)[2]
         IN  IF schedule_age < now
             THEN Reason(person \o " income schedule age cannot be before current age",
                         schedule_age, now)
             ELSE IF schedule_age >= retire
             THEN Reason(person \o " income schedule age cannot be at or after retirement age",
                         schedule_age, retire)
             ELSE IF schedule_income < 0
             THEN Reason(person \o " income schedule income cannot be negative",
                         schedule_income, 0)
             ELSE ValidateIncomeSchedule(Tail(schedule), now, retire, person)

\* ValidateEvents with ">=" for the horizon: an event at end_age is rejected.
RECURSIVE ValidateEvents_BeforeEnd(_, _)
ValidateEvents_BeforeEnd(events, params) ==
    IF events = << >> THEN NoReason
    ELSE LET event_age == Head(events)[1]
         IN  IF event_age < params.age_now
             THEN Reason("One-time event cannot be before current age",
                         event_age, params.age_now)
             ELSE IF event_age >= params.end_age
             THEN Reason("One-time event cannot be after end age",
                         event_age, params.end_age)
             ELSE ValidateEvents_BeforeEnd(Tail(events), params)

\* The loop over the one-time events.
RECURSIVE ValidateEvents(_, _)
ValidateEvents(events, params) ==
    IF events = << >> THEN NoReason
    ELSE LET event_age == Head(events)[1]
         IN  IF event_age < params.age_now
             THEN Reason("One-time event cannot be before current age",
                         event_age, params.age_now)
             ELSE IF event_age > params.end_age
             THEN Reason("One-time event cannot be after end age",
                         event_age, params.end_age)
             ELSE ValidateEvents(Tail(events), params)

\* The loop over the expense schedule.
RECURSIVE ValidateExpenseSchedule(_, _)
ValidateExpenseSchedule(schedule, params) ==
    IF schedule = << >> THEN NoReason
    ELSE LET schedule_age == Head(schedule)[1]
             schedule_expense == Head(schedule)[2]
         IN  IF schedule_age < params.age_now
             THEN Reason("Expense schedule age cannot be before current age",
                         schedule_age, params.age_now)
             ELSE IF schedule_age > params.end_age
             THEN Reason("Expense schedule age cannot be after end age",
                         schedule_age, params.end_age)
             ELSE IF schedule_expense < 0
             THEN Reason("Expense schedule expense cannot be negative",
                         schedule_expense, 0)
             ELSE ValidateExpenseSchedule(Tail(schedule), params)

\* All of simulate's validation, in the order of the code; NoReason when the
\* inputs pass.  spouse_retire_age is the defaulted value.
ValidationReason(retire_age, params, spouse_retire_age) ==
    LET r1 == ValidateRetireAges(retire_age, params, spouse_retire_age)
        r2 == ValidateIncomeSchedule(params.income_schedule, params.age_now,
                                     retire_age, "Person 1")
        r3 == ValidateIncomeSchedule(params.spouse_income_schedule,
                                     params.spouse_age_now, spouse_retire_age,
                                     "Person 2")
        r4 == ValidateEvents(params.one_time_events, params)
        r5 == ValidateExpenseSchedule(params.expense_schedule, params)
    IN  IF r1 # NoReason THEN r1
        ELSE IF r2 # NoReason THEN r2
        ELSE IF r3 # NoReason THEN r3
        ELSE IF r4 # NoReason THEN r4
        ELSE r5

\* total_months = round((end_age - max(age_now, spouse_age_now)) * 12).
TotalMonths(params) ==
    LET older_age_now == Max(params.age_now, params.spouse_age_now)
    IN  PyRound(params.end_age - older_age_now, TicksPerMonth)

\* age1 = age_now + month / 12 and age2 = spouse_age_now + month / 12.
Age1(params, month) == params.age_now + month * TicksPerMonth
Age2(params, month) == params.spouse_age_now + month * TicksPerMonth

(***************************************************************************)
(* model.py: simulate, the month loop                                      *)
(*                                                                         *)
(* The locals of simulate are one record.  Carried names the locals that   *)
(* live across iterations; the others are set anew in each iteration.      *)
(***************************************************************************)
Carried ==
    {"liquid", "pension1", "pension2",
     "pension1_income_active", "pension1_income_month",
     "pension2_income_active", "pension2_income_month",
     "old_age_pension1_active", "old_age_pension2_active",
     "liquid_at_first_pension_start", "first_pension_started",
     "min_assets_violated", "min_assets_violation_reason",
     "applied_events", "records"}

\* "Initialize tracking": the locals before the loop.
InitLocals(params) ==
    [liquid |-> params.liquid_now,
     pension1 |-> params.pension_now,
     pension2 |-> params.spouse_pension_now,
     pension1_income_active |-> FALSE, pension1_income_month |-> 0,
     pension2_income_active |-> FALSE, pension2_income_month |-> 0,
     old_age_pension1_active |-> FALSE, old_age_pension2_active |-> FALSE,
     liquid_at_first_pension_start |-> 0, first_pension_started |-> FALSE,
     min_assets_violated |-> FALSE, min_assets_violation_reason |-> NoReason,
     applied_events |-> {},
     records |-> << >>]

\* The locals of a call that finds the applied-event set of the earlier one.
FreshLocals_AppliedEventsKept(previous, params) ==
    [InitLocals(params) EXCEPT !.applied_events = previous.applied_events]

\* The locals with which a call starts when previous are the locals an
\* earlier call has left: every one of them is assigned anew.
FreshLocals(previous, params) == InitLocals(params)

\* The top of the loop body: the ages, and the per-month locals at their
\* initial values.
BeginMonth(s, params, month) ==
    s @@ [month |-> month,
          age1 |-> Age1(params, month),
          age2 |-> Age2(params, month),
          net_income_this_month |-> 0,
          salary1_gross |-> 0, salary1_net |-> 0, hishtalmut1 |-> 0,
          salary2_gross |-> 0, salary2_net |-> 0, hishtalmut2 |-> 0,
          person1_working |-> FALSE, person2_working |-> FALSE,
          one_time_event_amount |-> 0,
          total_old_age_pension |-> 0,
          total_pension_income_net |-> 0,
          pension_net_p1 |-> 0, pension_net_p2 |-> 0,
          current_monthly_expense |-> 0]

\* "Apply returns to all accounts".
ApplyReturns(w, params) ==
    [w EXCEPT !.liquid = @ * (1 + r_month(params)),
              !.pension1 = @ * (1 + r_month(params)),
              !.pension2 = @ * (1 + r_month(params))]

\* Person1Working inverted: the salary is paid from the retirement age on.
Person1Working_AfterRetirement(w, retire_age) == w.age1 >= retire_age

\* "person1_working = age1 < retire_age".
Person1Working(w, retire_age) == w.age1 < retire_age

\* "Person 1 working?" and the block under it.
SalaryPerson1(w, params, retire_age) ==
    LET person1_working == Person1Working(w, retire_age)
        gross_p1 == get_income_at_age(w.age1, params.gross_income_month,
                                      params.income_schedule)
        tax_p1 == calculate_monthly_tax_from_gross(gross_p1)
        employee_pension_p1 == (gross_p1 * params.pension_rate) \div 1000
        capped_salary_p1 == Min(gross_p1, params.hishtalmut_salary_cap)
        employee_hishtalmut_p1 ==
            (capped_salary_p1 * params.hishtalmut_rate_employee) \div 1000
        net_p1 == gross_p1 - tax_p1 - employee_pension_p1 - employee_hishtalmut_p1
        employer_hishtalmut_p1 ==
            (capped_salary_p1 * params.hishtalmut_rate_employer) \div 1000
        hishtalmut1 == employee_hishtalmut_p1 + employer_hishtalmut_p1
        employer_pension_p1 == (gross_p1 * params.pension_rate_employer) \div 1000
    IN  IF person1_working
        THEN [w EXCEPT !.person1_working = TRUE,
                       !.net_income_this_month = @ + net_p1,
                       !.salary1_gross = gross_p1,
                       !.salary1_net = net_p1,
                       !.hishtalmut1 = hishtalmut1,
                       !.liquid = @ + hishtalmut1,
                       !.pension1 = @ + employee_pension_p1 + employer_pension_p1]
        ELSE w

\* "Person 2 working?" and the block under it.
SalaryPerson2(w, params, spouse_retire_age) ==
    LET person2_working == w.age2 < spouse_retire_age
        gross_p2 == get_income_at_age(w.age2, params.spouse_gross_income_month,
                                      params.spouse_income_schedule)
        tax_p2 == calculate_monthly_tax_from_gross(gross_p2)
        employee_pension_p2 == (gross_p2 * params.spouse_pension_rate) \div 1000
        capped_salary_p2 == Min(gross_p2, params.spouse_hishtalmut_salary_cap)
        employee_hishtalmut_p2 ==
            (capped_salary_p2 * params.spouse_hishtalmut_rate_employee) \div 1000
        net_p2 == gross_p2 - tax_p2 - employee_pension_p2 - employee_hishtalmut_p2
        employer_hishtalmut_p2 ==
            (capped_salary_p2 * params.spouse_hishtalmut_rate_employer) \div 1000
        hishtalmut2 == employee_hishtalmut_p2 + employer_hishtalmut_p2
        employer_pension_p2 ==
            (gross_p2 * params.spouse_pension_rate_employer) \div 1000
    IN  IF person2_working
        THEN [w EXCEPT !.person2_working = TRUE,
                       !.net_income_this_month = @ + net_p2,
                       !.salary2_gross = gross_p2,
                       !.salary2_net = net_p2,
                       !.hishtalmut2 = hishtalmut2,
                       !.liquid = @ + hishtalmut2,
                       !.pension2 = @ + employee_pension_p2 + employer_pension_p2]
        ELSE w

\* AddNetIncome adding the gross salaries: the tax is not deducted.
AddNetIncome_Gross(w) == [w EXCEPT !.liquid = @ + w.salary1_gross + w.salary2_gross]

\* "Add net income to liquid".
AddNetIncome(w) == [w EXCEPT !.liquid = @ + w.net_income_this_month]

\* EventDue without the applied_events test: an event is applied in every
\* month in which its age is reached.
EventDue_NoAppliedTest(w, event_age, idx) == w.age1 >= event_age

\* The test of the one-time-event loop: the event at 0-based index idx is
\* applied now.
EventDue(w, event_age, idx) == w.age1 >= event_age /\ idx \notin w.applied_events

\* The one-time-event loop from the event at 1-based position i on.
RECURSIVE ApplyEventsFrom(_, _, _)
ApplyEventsFrom(w, events, i) ==
    IF i > Len(events) THEN w
    ELSE LET event_age == events[i][1]
             amount == events[i][2]
             idx == i - 1
         IN  IF EventDue(w, event_age, idx)
             THEN ApplyEventsFrom(
                      [w EXCEPT !.liquid = @ + amount,
                                !.one_time_event_amount = @ + amount,
                                !.applied_events = @ \cup {idx}],
                      events, i + 1)
             ELSE ApplyEventsFrom(w, events, i + 1)

\* "Apply one-time events (if any) at the appropriate age".
ApplyOneTimeEvents(w, params) == ApplyEventsFrom(w, params.one_time_events, 1)

\* Pension1Activates without the "not active" test: the payout is computed
\* anew in every month from the pension start age on.
Pension1Activates_EveryMonth(w, params) == w.age1 >= params.pension_start_age

\* The guard of person 1's pension activation.
Pension1Activates(w, params) ==
    ~w.pension1_income_active /\ w.age1 >= params.pension_start_age

\* The guard of person 2's pension activation.
Pension2Activates(w, params) ==
    ~w.pension2_income_active /\ w.age2 >= params.spouse_pension_start_age

\* FirstPensionStarts without the flag: every activation writes the metric.
FirstPensionStarts_EveryActivation(w) == TRUE

\* The guard of "liquid_at_first_pension_start = liquid".
FirstPensionStarts(w) == ~w.first_pension_started

\* "Activate pension income when each person reaches pension start age",
\* person 1.
ActivatePension1(w, params) ==
    IF Pension1Activates(w, params)
    THEN LET a == [w EXCEPT !.pension1_income_active = TRUE,
                            !.pension1_income_month = w.pension1 \div params.mekadem]
         IN  IF FirstPensionStarts(a)
             THEN [a EXCEPT !.liquid_at_first_pension_start = a.liquid,
                            !.first_pension_started = TRUE]
             ELSE a
    ELSE w

\* The same for person 2.
ActivatePension2(w, params) ==
    IF Pension2Activates(w, params)
    THEN LET a == [w EXCEPT !.pension2_income_active = TRUE,
                            !.pension2_income_month =
                                w.pension2 \div params.spouse_mekadem]
         IN  IF FirstPensionStarts(a)
             THEN [a EXCEPT !.liquid_at_first_pension_start = a.liquid,
                            !.first_pension_started = TRUE]
             ELSE a
    ELSE w

\* "Activate old age pension when each person reaches 70", and the amounts.
ActivateOldAge(w, params) ==
    LET a1 == w.old_age_pension1_active
              \/ w.age1 >= params.old_age_pension_start_age
        a2 == w.old_age_pension2_active
              \/ w.age2 >= params.old_age_pension_start_age
        old_age_pension1_amount == IF a1 THEN params.old_age_pension_month ELSE 0
        old_age_pension2_amount == IF a2 THEN params.old_age_pension_month ELSE 0
    IN  [w EXCEPT !.old_age_pension1_active = a1,
                  !.old_age_pension2_active = a2,
                  !.total_old_age_pension =
                      old_age_pension1_amount + old_age_pension2_amount]

\* PensionPayout1 without the tax-free amount: the whole payout is taxed.
PensionPayout1_TaxedInFull(w, params) ==
    LET pension_gross_p1 == w.pension1_income_month
        pension_tax_p1 == calculate_monthly_tax_from_gross(pension_gross_p1)
        pension_net_p1 == pension_gross_p1 - pension_tax_p1
    IN  IF w.pension1_income_active
        THEN [w EXCEPT !.pension_net_p1 = pension_net_p1,
                       !.total_pension_income_net = @ + pension_net_p1,
                       !.pension1 = @ - pension_gross_p1]
        ELSE w

\* "if pension1_income_active:" the payout of person 1.
PensionPayout1(w, params) ==
    LET pension_gross_p1 == w.pension1_income_month
        taxable_pension_p1 ==
            Max(0, pension_gross_p1 - params.pension_tax_free_amount)
        pension_tax_p1 == calculate_monthly_tax_from_gross(taxable_pension_p1)
        pension_net_p1 == pension_gross_p1 - pension_tax_p1
    IN  IF w.pension1_income_active
        THEN [w EXCEPT !.pension_net_p1 = pension_net_p1,
                       !.total_pension_income_net = @ + pension_net_p1,
                       !.pension1 = @ - pension_gross_p1]
        ELSE w

\* "if pension2_income_active:" the payout of person 2.
PensionPayout2(w, params) ==
    LET pension_gross_p2 == w.pension2_income_month
        taxable_pension_p2 ==
            Max(0, pension_gross_p2 - params.pension_tax_free_amount)
        pension_tax_p2 == calculate_monthly_tax_from_gross(taxable_pension_p2)
        pension_net_p2 == pension_gross_p2 - pension_tax_p2
    IN  IF w.pension2_income_active
        THEN [w EXCEPT !.pension_net_p2 = pension_net_p2,
                       !.total_pension_income_net = @ + pension_net_p2,
                       !.pension2 = @ - pension_gross_p2]
        ELSE w

\* "Add pension income to liquid" and "Add old age pension to liquid".
AddPensionIncome(w) ==
    [w EXCEPT !.liquid = @ + w.total_pension_income_net + w.total_old_age_pension]

\* "Get monthly spending at current age" and "Deduct monthly spending".
DeductExpense(w, params) ==
    LET current_monthly_expense ==
            get_expense_at_age(w.age1, params.spend_month, params.expense_schedule)
    IN  [w EXCEPT !.current_monthly_expense = current_monthly_expense,
                  !.liquid = @ - current_monthly_expense]

\* FloorViolatedNow with the comparison "<=": a balance equal to the floor
\* counts as a violation.
FloorViolatedNow_AtFloor(w, params) ==
    ~w.min_assets_violated /\ w.liquid <= params.min_assets

\* The tracking without "not min_assets_violated": each violating month
\* replaces the reason.
TrackFloor_LastViolation(w, params) ==
    IF w.liquid < params.min_assets
    THEN [w EXCEPT !.min_assets_violated = TRUE,
                   !.min_assets_violation_reason =
                       Reason("Assets fell below minimum", w.age1, w.age2)]
    ELSE w

\* The guard of "Track if liquid went below minimum assets threshold".
FloorViolatedNow(w, params) ==
    ~w.min_assets_violated /\ w.liquid < params.min_assets

\* "Track if liquid went below minimum assets threshold (but continue)".
TrackFloor(w, params) ==
    IF FloorViolatedNow(w, params)
    THEN [w EXCEPT !.min_assets_violated = TRUE,
                   !.min_assets_violation_reason =
                       Reason("Assets fell below minimum", w.age1, w.age2)]
    ELSE w

\* Phase with the bridge test of one payout only: a month is a bridge month
\* as long as person 1's payout is not active.
Phase_BridgeByPerson1(w) ==
    IF w.person1_working /\ w.person2_working THEN "both_working"
    ELSE IF w.person1_working \/ w.person2_working THEN "one_working"
    ELSE IF ~w.pension1_income_active THEN "bridge"
    ELSE "post_pension"

\* "Determine phase for display".
Phase(w) ==
    IF w.person1_working /\ w.person2_working THEN "both_working"
    ELSE IF w.person1_working \/ w.person2_working THEN "one_working"
    ELSE IF ~w.pension1_income_active /\ ~w.pension2_income_active THEN "bridge"
    ELSE "post_pension"

\* The dictionary appended to records.
MonthRecord(w) ==
    [month |-> w.month, age1 |-> w.age1, age2 |-> w.age2,
     phase |-> Phase(w),
     liquid |-> w.liquid, pension1 |-> w.pension1, pension2 |-> w.pension2,
     salary1_gross |-> w.salary1_gross, salary1_net |-> w.salary1_net,
     hishtalmut1 |-> w.hishtalmut1,
     salary2_gross |-> w.salary2_gross, salary2_net |-> w.salary2_net,
     hishtalmut2 |-> w.hishtalmut2,
     pension1_income |->
         IF w.pension1_income_active THEN w.pension1_income_month ELSE 0,
     pension2_income |->
         IF w.pension2_income_active THEN w.pension2_income_month ELSE 0,
     pension1_income_net |-> w.pension_net_p1,
     pension2_income_net |-> w.pension_net_p2,
     one_time_event |-> w.one_time_event_amount,
     total_pension_income |-> w.total_pension_income_net,
     old_age_pension |-> w.total_old_age_pension,
     monthly_expense |-> w.current_monthly_expense,
     liquid_change |->
         w.net_income_this_month + w.total_pension_income_net
         + w.total_old_age_pension + w.hishtalmut1 + w.hishtalmut2
         + w.one_time_event_amount - w.current_monthly_expense,
     person1_working |-> w.person1_working,
     person2_working |-> w.person2_working]

\* "records.append({...})".
AppendRecord(w) == [w EXCEPT !.records = Append(@, MonthRecord(w))]

\* MonthStep with the return applied at the end of the month, after the
\* month's cash flows, instead of first.
MonthStep_ReturnsLast(s, params, retire_age, spouse_retire_age, month) ==
    LET w0 == BeginMonth(s, params, month)
        w2 == SalaryPerson1(w0, params, retire_age)
        w3 == SalaryPerson2(w2, params, spouse_retire_age)
        w4 == AddNetIncome(w3)
        w5 == ApplyOneTimeEvents(w4, params)
        w6 == ActivatePension1(w5, params)
        w7 == ActivatePension2(w6, params)
        w8 == ActivateOldAge(w7, params)
        w9 == PensionPayout1(w8, params)
        w10 == PensionPayout2(w9, params)
        w11 == AddPensionIncome(w10)
        w12 == DeductExpense(w11, params)
        w13 == TrackFloor(ApplyReturns(w12, params), params)
        w14 == AppendRecord(w13)
    IN  [f \in Carried |-> w14[f]]

\* One iteration of "for month in range(total_months)": the carried locals
\* after it.  spouse_retire_age is the defaulted value.
MonthStep(s, params, retire_age, spouse_retire_age, month) ==
    LET w0 == BeginMonth(s, params, month)
        w1 == ApplyReturns(w0, params)
        w2 == SalaryPerson1(w1, params, retire_age)
        w3 == SalaryPerson2(w2, params, spouse_retire_age)
        w4 == AddNetIncome(w3)
        w5 == ApplyOneTimeEvents(w4, params)
        w6 == ActivatePension1(w5, params)
        w7 == ActivatePension2(w6, params)
        w8 == ActivateOldAge(w7, params)
        w9 == PensionPayout1(w8, params)
        w10 == PensionPayout2(w9, params)
        w11 == AddPensionIncome(w10)
        w12 == DeductExpense(w11, params)
        w13 == TrackFloor(w12, params)
        w14 == AppendRecord(w13)
    IN  [f \in Carried |-> w14[f]]

\* LoopContinues with a "break" at the first floor violation.
LoopContinues_BreakOnViolation(s, params, month) ==
    month < TotalMonths(params) /\ ~s.min_assets_violated

\* The guard of the for loop: another iteration follows.
LoopContinues(s, params, month) == month < TotalMonths(params)

\* The three returns after the loop.
Verdict(s, params) ==
    LET liquid_end == s.liquid
        figures == [df |-> s.records,
                    pension_income_month |-> s.pension1_income_month,
                    spouse_pension_income_month |-> s.pension2_income_month,
                    liquid_end |-> liquid_end,
                    liquid_at_pension_start |-> s.liquid_at_first_pension_start]
    IN  IF s.min_assets_violated
        THEN figures @@ [ok |-> FALSE, reason |-> s.min_assets_violation_reason,
                         pension_at_start |-> s.pension1,
                         spouse_pension_at_start |-> s.pension2]
        ELSE IF liquid_end < params.min_assets
        THEN figures @@ [ok |-> FALSE,
                         reason |-> Reason("Assets below minimum at end age",
                                           params.min_assets, liquid_end),
                         pension_at_start |-> s.pension1,
                         spouse_pension_at_start |-> s.pension2]
        ELSE figures @@ [ok |-> TRUE,
                         reason |-> Reason("Feasible retirement scenario for both people", 0, 0),
                         pension_at_start |->
                             IF s.pension1_income_active THEN s.pension1 ELSE 0,
                         spouse_pension_at_start |->
                             IF s.pension2_income_active THEN s.pension2 ELSE 0]

\* "for month in range(total_months)" from iteration month on: the carried
\* locals after the last iteration.  When iteration month starts, month
\* records have been appended.
RECURSIVE RunLoop(_, _, _, _, _)
RunLoop(s, params, retire_age, spouse_retire_age, month) ==
    IF Len(s.records) = month /\ LoopContinues(s, params, month)
    THEN RunLoop(MonthStep(s, params, retire_age, spouse_retire_age, month),
                 params, retire_age, spouse_retire_age, month + 1)
    ELSE s

\* simulate(retire_age, params, spouse_retire_age) as the callers in
\* search.py see it: the Result it returns.  The optional argument is
\* << >> (None) or << age >>.
simulate(retire_age, params, spouse_retire_age) ==
    LET defaulted == SpouseRetireAge(params, spouse_retire_age)
        reason == ValidationReason(retire_age, params, defaulted)
    IN  IF reason # NoReason
        THEN Rejected(reason)
        ELSE Verdict(RunLoop(InitLocals(params), params, retire_age, defaulted, 0),
                     params)

(***************************************************************************)
(* The inputs of the checked runs                                          *)
(***************************************************************************)
\* The rate fields of Params at their defaults (per mille) and all zero.
DefaultRates ==
    [pension_rate |-> 60, pension_rate_employer |-> 125,
     hishtalmut_rate_employee |-> 25, hishtalmut_rate_employer |-> 75,
     spouse_pension_rate |-> 60, spouse_pension_rate_employer |-> 125,
     spouse_hishtalmut_rate_employee |-> 25,
     spouse_hishtalmut_rate_employer |-> 75]

ZeroRates == [f \in DOMAIN DefaultRates |-> 0]

\* A Params value around which the inputs vary: person 1 is 2 ticks old.
BaseParams ==
    DefaultRates @@
    [age_now |-> 2, retire_age |-> 4, pension_start_age |-> 6,
     income_schedule |-> << >>,
     spouse_age_now |-> 2, spouse_retire_age |-> 4,
     spouse_pension_start_age |-> 6,
     spouse_income_schedule |-> << >>,
     one_time_events |-> << >>,
     expense_schedule |-> << >>,
     end_age |-> 10,
     r_annual_real |-> 0,
     gross_income_month |-> 18000,
     hishtalmut_salary_cap |-> 15712,
     spouse_gross_income_month |-> 15000,
     spouse_hishtalmut_salary_cap |-> 15712,
     spend_month |-> 16000,
     liquid_now |-> 300000, pension_now |-> 400000,
     spouse_pension_now |-> 350000,
     min_assets |-> 150000,
     mekadem |-> 230, spouse_mekadem |-> 230,
     old_age_pension_month |-> 2000, old_age_pension_start_age |-> 8,
     pension_tax_free_amount |-> 5000]

\* A call simulate(retire_age, params, spouse_retire_age).
Call(params, retire_age, spouse_retire_age) ==
    [params |-> params, retire_age |-> retire_age,
     spouse_retire_age |-> spouse_retire_age]

\* Calls that vary the ages: both signs of the age gap, horizons on both
\* sides of a rounding tie and before the current age, retirement ages
\* below, at, inside and above [current age, pension start age].
AgeCall(c) ==
    Call([BaseParams EXCEPT !.spouse_age_now = c[1], !.end_age = c[2],
                              !.pension_start_age = c[3],
                              !.spouse_pension_start_age = c[4],
                              !.old_age_pension_start_age = c[5],
                              !.r_annual_real = c[6],
                              !.one_time_events = c[7],
                              !.mekadem = c[8]],
           c[9], c[10])

AgeChoices ==
    {1, 2, 4} \X {1, 5, 9, Horizon} \X {4, 6} \X {5, 6} \X {8, 30}
    \X {0, 4095}
    \X {<< >>, << <<5, 250000>> >>}
    \X {2, 230}
    \X {1, 2, 4, 6, 7}
    \X {<< >>, << 0 >>, << 5 >>, << 7 >>}

\* Calls that vary the lists: schedules and events that pass validation and
\* that fail each check of it, events between two simulated months, on the
\* horizon, sharing a month, and out of age order.
ListCall(c) ==
    Call([BaseParams EXCEPT !.spouse_age_now = c[1],
                              !.income_schedule = c[2],
                              !.spouse_income_schedule = c[3],
                              !.one_time_events = c[4],
                              !.expense_schedule = c[5],
                              !.min_assets = c[6]],
           c[7], << >>)

ListChoices ==
    {1, 2, 4}
    \X {<< >>, << <<3, 30000>> >>, << <<2, 0>>, <<3, 60000>> >>,
                << <<3, 30000>>, <<2, 9000>> >>, << <<1, 30000>> >>,
                << <<2, 30000>>, <<3, 0 - 1000>> >>, << <<5, 30000>> >>}
    \X {<< >>, << <<3, 10000>> >>, << <<1, 10000>> >>,
                << <<2, 0 - 1>> >>, << <<4, 10000>> >>}
    \X {<< >>, << <<5, 250000>> >>, << <<4, 0 - 200000>>, <<7, 90000>> >>,
                << <<3, 70000>>, <<2, 0 - 40000>>, <<4, 5000>> >>,
                << <<10, 33000>> >>, << <<2, 1000>>, <<11, 1000>> >>,
                << <<1, 1000>> >>}
    \X {<< >>, << <<5, 20000>> >>, << <<6, 9000>>, <<4, 30000>> >>,
                << <<1, 20000>> >>, << <<11, 20000>> >>, << <<4, 0 - 1>> >>}
    \X {150000}
    \X {4, 6}

\* Calls that vary the money: balances around the floor, no income and
\* income above the expense, zero and default contribution rates.
MoneyCall(c) ==
    Call((IF c[1] THEN ZeroRates ELSE DefaultRates) @@
           [BaseParams EXCEPT !.r_annual_real = c[2],
                              !.gross_income_month = c[3],
                              !.spouse_gross_income_month = c[4],
                              !.spend_month = c[5],
                              !.liquid_now = c[6],
                              !.min_assets = c[7],
                              !.one_time_events = c[8],
                              !.spouse_age_now = c[9],
                              !.old_age_pension_start_age = c[10]],
           c[11], << c[12] >>)

MoneyChoices ==
    BOOLEAN \X {0, 4095} \X {0, 18000, 60000} \X {0, 15000}
    \X {0, 16000} \X {0, 166000, 300000} \X {0, 150000}
    \X {<< >>, << <<4, 0 - 200000>>, <<7, 90000>> >>,
                << <<5, 250000>> >>}
    \X {1, 2, 4}
    \X {3, 8}
    \X {3, 6} \X {2, 6}

\* Calls that vary the horizon around the older person's current age, so
\* that no month or a few months are simulated, with starting balances
\* below, at and above the floor.
HorizonCall(c) ==
    Call([BaseParams EXCEPT !.spouse_age_now = c[1], !.end_age = c[2],
                              !.liquid_now = c[3], !.min_assets = c[4]],
           c[5], << >>)

HorizonChoices ==
    {1, 2, 4} \X {1, 2, 3, 5} \X {0, 150000, 166000}
    \X {0, 150000, 166000} \X {2, 4}

(***************************************************************************)
(* One call of simulate as a state machine                                 *)
(***************************************************************************)
VARIABLES
    params,             \* the Params argument
    retire_age,         \* the retire_age argument
    spouse_retire_age,  \* the spouse_retire_age argument: << >> is None
    pc,                 \* "validate", "loop" or "done"
    month,              \* the loop variable
    st,                 \* the carried locals
    result,             \* the Result returned, once pc = "done"
    query,              \* a call of the schedule resolvers (age, base, schedule)
                        \* or of the tax function (gross_monthly_income)
    answer,             \* << >>, or what is returned for query
    search,             \* a call of a function of search.py: arguments, locals
    outcome,            \* << >>, or the tuple that call has returned
    calls               \* the calls the caller has made that have returned

\* The variables of a simulate call and those of a resolver or tax call.
simVars == << params, retire_age, spouse_retire_age, pc, month, st, result >>
fnVars == << query, answer >>
searchVars == << search, outcome >>
vars == << simVars, fnVars, searchVars, calls >>

\* No Result yet.
NoResult == [ok |-> FALSE, reason |-> NoReason]

\* spouse_retire_age after "if spouse_retire_age is None".
sra == SpouseRetireAge(params, spouse_retire_age)

\* No resolver call.
NoQuery == [age |-> 0, base |-> 0, schedule |-> << >>]

\* No call of search.py.
NoSearch == [fn |-> "none"]

\* simulate is called with the arguments of call c.
Start(c) ==
    /\ params = c.params
    /\ retire_age = c.retire_age
    /\ spouse_retire_age = c.spouse_retire_age
    /\ pc = "validate"
    /\ month = 0
    /\ st = InitLocals(c.params)
    /\ result = NoResult
    /\ query = NoQuery
    /\ answer = << >>
    /\ search = NoSearch
    /\ outcome = << >>
    /\ calls = << >>

Init ==
    \/ \E c \in AgeChoices : Start(AgeCall(c))
    \/ \E c \in ListChoices : Start(ListCall(c))
    \/ \E c \in MoneyChoices : Start(MoneyCall(c))
    \/ \E c \in HorizonChoices : Start(HorizonCall(c))

\* A validation check fails: simulate returns before the loop.
Reject ==
    /\ pc = "validate"
    /\ ValidationReason(retire_age, params, sra) # NoReason
    /\ result' = Rejected(ValidationReason(retire_age, params, sra))
    /\ pc' = "done"
    /\ UNCHANGED << params, retire_age, spouse_retire_age, month, st, fnVars,
                   searchVars, calls >>

\* Every validation check passes: the locals are initialised.
Enter ==
    /\ pc = "validate"
    /\ ValidationReason(retire_age, params, sra) = NoReason
    /\ st' = FreshLocals(st, params)
    /\ month' = 0
    /\ pc' = "loop"
    /\ UNCHANGED << params, retire_age, spouse_retire_age, result, fnVars,
                   searchVars, calls >>

\* One iteration of the month loop.
Month ==
    /\ pc = "loop"
    /\ LoopContinues(st, params, month)
    /\ st' = MonthStep(st, params, retire_age, sra, month)
    /\ month' = month + 1
    /\ UNCHANGED << params, retire_age, spouse_retire_age, pc, result, fnVars,
                   searchVars, calls >>

\* The loop is over: simulate returns its verdict.
Finish ==
    /\ pc = "loop"
    /\ ~LoopContinues(st, params, month)
    /\ result' = Verdict(st, params)
    /\ pc' = "done"
    /\ UNCHANGED << params, retire_age, spouse_retire_age, month, st, fnVars,
                   searchVars, calls >>

Next == Reject \/ Enter \/ Month \/ Finish

Spec == Init /\ [][Next]_vars

(***************************************************************************)
(* One call of the schedule resolver                                       *)
(***************************************************************************)
\* The schedules of exactly n entries, sorted or not, ages possibly equal.
RECURSIVE SchedulesOfLen(_)
SchedulesOfLen(n) ==
    IF n = 0 THEN { << >> }
    ELSE { Append(sch, << a, v >>) :
             sch \in SchedulesOfLen(n - 1), a \in 0..MaxQueryAge, v \in {7000, 9000} }

Schedules == UNION { SchedulesOfLen(n) : n \in 0..MaxScheduleLen }

InitResolver ==
    /\ \E a \in 0..MaxQueryAge, sch \in Schedules :
          query = [age |-> a, base |-> 5000, schedule |-> sch]
    /\ answer = << >>
    /\ params = BaseParams
    /\ retire_age = BaseParams.retire_age
    /\ spouse_retire_age = << >>
    /\ pc = "idle"
    /\ month = 0
    /\ st = InitLocals(BaseParams)
    /\ result = NoResult
    /\ search = NoSearch
    /\ outcome = << >>
    /\ calls = << >>

\* get_income_at_age and get_expense_at_age are called with the query.
Resolve ==
    /\ answer = << >>
    /\ pc = "idle"
    /\ answer' = << get_income_at_age(query.age, query.base, query.schedule),
                    get_expense_at_age(query.age, query.base, query.schedule) >>
    /\ UNCHANGED << simVars, query, searchVars, calls >>

NextResolver == Resolve

SpecResolver == InitResolver /\ [][NextResolver]_vars

(***************************************************************************)
(* One call of the tax function                                            *)
(***************************************************************************)
\* The monthly incomes the tax function is called with: a grid from below
\* zero to MaxTaxSteps * TaxIncomeStep, and the incomes at and next to the
\* insurance threshold, the insurance cap and each bracket threshold / 12.
TaxIncomeStep == 500
MaxTaxSteps == 240

TaxIncomes ==
    { k * TaxIncomeStep : k \in (0 - 2)..MaxTaxSteps }
      \cup { b + d : b \in { 7010, 7522, 10060, 16150, 22440, 46690, 50695, 60130 },
                     d \in { 0 - 1, 0, 1 } }

InitTax ==
    /\ \E g \in TaxIncomes : query = [gross_monthly_income |-> g]
    /\ answer = << >>
    /\ params = BaseParams
    /\ retire_age = BaseParams.retire_age
    /\ spouse_retire_age = << >>
    /\ pc = "idle"
    /\ month = 0
    /\ st = InitLocals(BaseParams)
    /\ result = NoResult
    /\ search = NoSearch
    /\ outcome = << >>
    /\ calls = << >>

\* calculate_monthly_tax_from_gross is called with the query.
TaxCall ==
    /\ answer = << >>
    /\ answer' = << calculate_monthly_tax_from_gross(query.gross_monthly_income) >>
    /\ UNCHANGED << simVars, query, searchVars, calls >>

NextTax == TaxCall

SpecTax == InitTax /\ [][NextTax]_vars

(***************************************************************************)
(* search.py                                                               *)
(*                                                                         *)
(* An optional argument or return value is << >> (None) or << x >>.  A     *)
(* search function calls simulate as a function; the variables of a        *)
(* simulate call of its own stay idle.                                     *)
(***************************************************************************)
None == << >>

\* "if x is None: x = default".
OrDefault(x, default) == IF x = None THEN default ELSE x[1]

\* No simulate call and no resolver call of its own; params is the
\* searched parameter set p.
Idle(p) ==
    /\ params = p
    /\ retire_age = p.retire_age
    /\ spouse_retire_age = None
    /\ pc = "idle"
    /\ month = 0
    /\ st = InitLocals(p)
    /\ result = NoResult
    /\ query = NoQuery
    /\ answer = << >>

(***************************************************************************)
(* search.py: find_earliest_retirement                                     *)
(***************************************************************************)
\* min_age and max_age after the defaults and "Validate bounds".
EarliestBounds(p, min_age, max_age) ==
    [min_age |-> Max(OrDefault(min_age, p.age_now), p.age_now),
     max_age |-> Min(OrDefault(max_age, p.pension_start_age), p.pension_start_age)]

\* CandidateAge without "Don't exceed max_age".
CandidateAge_Unclamped(min_age, max_age, m) == min_age + m * TicksPerMonth

\* "retire_age = min_age + m / 12" and "Don't exceed max_age".
CandidateAge(min_age, max_age, m) ==
    LET candidate == min_age + m * TicksPerMonth
    IN  IF candidate > max_age THEN max_age ELSE candidate

\* The call find_earliest_retirement(params, min_age, max_age,
\* spouse_retire_age, step_months), before its first statement.
EarliestCall(min_age, max_age, spouse_age, step_months) ==
    [fn |-> "find_earliest_retirement",
     args |-> [min_age |-> min_age, max_age |-> max_age,
               spouse_retire_age |-> spouse_age, step_months |-> step_months],
     pc |-> "begin",
     min_age |-> 0, max_age |-> 0, spouse_retire_age |-> 0,
     total_months |-> 0, m |-> 0]

\* The defaults, "Validate bounds" and the early return.
EarliestBegin ==
    /\ search.fn = "find_earliest_retirement"
    /\ search.pc = "begin"
    /\ LET b == EarliestBounds(params, search.args.min_age, search.args.max_age)
           locals == [search EXCEPT
                        !.min_age = b.min_age,
                        !.max_age = b.max_age,
                        !.spouse_retire_age =
                            OrDefault(search.args.spouse_retire_age,
                                      params.spouse_retire_age)]
       IN  IF b.min_age > b.max_age
           THEN /\ search' = [locals EXCEPT !.pc = "done"]
                /\ outcome' = << None, None >>
           ELSE /\ search' = [locals EXCEPT
                                !.pc = "scan",
                                !.total_months =
                                    PyRound(b.max_age - b.min_age, TicksPerMonth),
                                !.m = 0]
                /\ outcome' = outcome
    /\ UNCHANGED << simVars, fnVars, calls >>

\* One iteration of "for m in range(0, total_months + 1, step_months)".
EarliestTry ==
    /\ search.fn = "find_earliest_retirement"
    /\ search.pc = "scan"
    /\ search.m <= search.total_months
    /\ LET candidate == CandidateAge(search.min_age, search.max_age, search.m)
           res == simulate(candidate, params, << search.spouse_retire_age >>)
       IN  IF res.ok
           THEN /\ search' = [search EXCEPT !.pc = "done"]
                /\ outcome' = << << candidate >>, << res >> >>
           ELSE IF candidate >= search.max_age
           THEN /\ search' = [search EXCEPT !.pc = "done"]
                /\ outcome' = << None, None >>
           ELSE /\ search' = [search EXCEPT !.m = @ + search.args.step_months]
                /\ outcome' = outcome
    /\ UNCHANGED << simVars, fnVars, calls >>

\* The range is exhausted: "No feasible retirement age found".
EarliestExhausted ==
    /\ search.fn = "find_earliest_retirement"
    /\ search.pc = "scan"
    /\ search.m > search.total_months
    /\ search' = [search EXCEPT !.pc = "done"]
    /\ outcome' = << None, None >>
    /\ UNCHANGED << simVars, fnVars, calls >>

(***************************************************************************)
(* search.py: find_earliest_joint_retirement                               *)
(***************************************************************************)
\* min_age and max_age after the defaults and "Validate bounds".
JointBounds(p, min_age, max_age) ==
    LET older_now == Max(p.age_now, p.spouse_age_now)
        first_pension == Min(p.pension_start_age, p.spouse_pension_start_age)
    IN  [min_age |-> Max(OrDefault(min_age, older_now), older_now),
         max_age |-> Min(OrDefault(max_age, first_pension), first_pension)]

\* JointSpouseAge with the age difference added.
JointSpouseAge_Plus(retire_age1, age_diff) == retire_age1 + age_diff

\* "retire_age2 = retire_age1 - age_diff".
JointSpouseAge(retire_age1, age_diff) == retire_age1 - age_diff

\* The call find_earliest_joint_retirement(params, min_age, max_age,
\* step_months), before its first statement.
JointCall(min_age, max_age, step_months) ==
    [fn |-> "find_earliest_joint_retirement",
     args |-> [min_age |-> min_age, max_age |-> max_age,
               step_months |-> step_months],
     pc |-> "begin",
     min_age |-> 0, max_age |-> 0, age_diff |-> 0,
     total_months |-> 0, m |-> 0]

\* The defaults, "Validate bounds", the early return and age_diff.
JointBegin ==
    /\ search.fn = "find_earliest_joint_retirement"
    /\ search.pc = "begin"
    /\ LET b == JointBounds(params, search.args.min_age, search.args.max_age)
           locals == [search EXCEPT !.min_age = b.min_age,
                                    !.max_age = b.max_age]
       IN  IF b.min_age > b.max_age
           THEN /\ search' = [locals EXCEPT !.pc = "done"]
                /\ outcome' = << None, None, None >>
           ELSE /\ search' = [locals EXCEPT
                                !.pc = "scan",
                                !.age_diff = params.age_now - params.spouse_age_now,
                                !.total_months =
                                    PyRound(b.max_age - b.min_age, TicksPerMonth),
                                !.m = 0]
                /\ outcome' = outcome
    /\ UNCHANGED << simVars, fnVars, calls >>

\* One iteration of "for m in range(0, total_months + 1, step_months)".
JointTry ==
    /\ search.fn = "find_earliest_joint_retirement"
    /\ search.pc = "scan"
    /\ search.m <= search.total_months
    /\ LET retire_age1 == search.min_age + search.m * TicksPerMonth
           retire_age2 == JointSpouseAge(retire_age1, search.age_diff)
           res == simulate(retire_age1, params, << retire_age2 >>)
       IN  IF \/ retire_age1 > params.pension_start_age
              \/ retire_age2 > params.spouse_pension_start_age
           THEN /\ search' = [search EXCEPT !.pc = "done"]
                /\ outcome' = << None, None, None >>
           ELSE IF \/ retire_age1 < params.age_now
                   \/ retire_age2 < params.spouse_age_now
           THEN /\ search' = [search EXCEPT !.m = @ + search.args.step_months]
                /\ outcome' = outcome
           ELSE IF res.ok
           THEN /\ search' = [search EXCEPT !.pc = "done"]
                /\ outcome' = << << retire_age1 >>, << retire_age2 >>, << res >> >>
           ELSE /\ search' = [search EXCEPT !.m = @ + search.args.step_months]
                /\ outcome' = outcome
    /\ UNCHANGED << simVars, fnVars, calls >>

\* The range is exhausted: "No feasible joint retirement age found".
JointExhausted ==
    /\ search.fn = "find_earliest_joint_retirement"
    /\ search.pc = "scan"
    /\ search.m > search.total_months
    /\ search' = [search EXCEPT !.pc = "done"]
    /\ outcome' = << None, None, None >>
    /\ UNCHANGED << simVars, fnVars, calls >>

(***************************************************************************)
(* search.py: compare_scenarios                                            *)
(***************************************************************************)
\* The dictionary appended to scenarios.
ScenarioRecord(p, age, spouse_age, res) ==
    [retirement_age |-> age,
     spouse_retirement_age |-> spouse_age,
     feasible |-> res.ok,
     reason |-> res.reason,
     liquid_at_pension_start |-> res.liquid_at_pension_start,
     pension_at_start |-> res.pension_at_start,
     pension_income_month |-> res.pension_income_month,
     spouse_pension_at_start |-> res.spouse_pension_at_start,
     spouse_pension_income_month |-> res.spouse_pension_income_month,
     liquid_end |-> res.liquid_end,
     working_years |-> age - p.age_now,
     spouse_working_years |-> spouse_age - p.spouse_age_now]

\* CompareContinues stopping the batch at the first infeasible scenario.
CompareContinues_StopAtInfeasible(s) ==
    /\ s.i <= Len(s.args.retirement_ages)
    /\ \A k \in DOMAIN s.scenarios : s.scenarios[k].feasible

\* The guard of "for retire_age in retirement_ages": i is the position of
\* the next age.
CompareContinues(s) == s.i <= Len(s.args.retirement_ages)

\* The call compare_scenarios(params, retirement_ages, spouse_retire_age),
\* before its first statement.
CompareCall(retirement_ages, spouse_age) ==
    [fn |-> "compare_scenarios",
     args |-> [retirement_ages |-> retirement_ages,
               spouse_retire_age |-> spouse_age],
     pc |-> "begin",
     spouse_retire_age |-> 0, scenarios |-> << >>, i |-> 1]

\* The default of spouse_retire_age and "scenarios = []".
CompareBegin ==
    /\ search.fn = "compare_scenarios"
    /\ search.pc = "begin"
    /\ search' = [search EXCEPT
                    !.pc = "loop",
                    !.spouse_retire_age =
                        OrDefault(search.args.spouse_retire_age,
                                  params.spouse_retire_age),
                    !.scenarios = << >>,
                    !.i = 1]
    /\ UNCHANGED << simVars, fnVars, calls, outcome >>

\* One iteration of "for retire_age in retirement_ages".
CompareScenario ==
    /\ search.fn = "compare_scenarios"
    /\ search.pc = "loop"
    /\ CompareContinues(search)
    /\ LET age == search.args.retirement_ages[search.i]
           res == simulate(age, params, << search.spouse_retire_age >>)
       IN  search' = [search EXCEPT
                        !.scenarios =
                            Append(@, ScenarioRecord(params, age,
                                                     search.spouse_retire_age, res)),
                        !.i = @ + 1]
    /\ UNCHANGED << simVars, fnVars, calls, outcome >>

\* "return scenarios"; the returned list is the one component of outcome.
CompareReturn ==
    /\ search.fn = "compare_scenarios"
    /\ search.pc = "loop"
    /\ ~CompareContinues(search)
    /\ search' = [search EXCEPT !.pc = "done"]
    /\ outcome' = << search.scenarios >>
    /\ UNCHANGED << simVars, fnVars, calls >>

(***************************************************************************)
(* search.py: find_max_monthly_expense                                     *)
(*                                                                         *)
(* low, high and mid are whole shekels; the checked calls have an upper    *)
(* bound that every halving of the search divides exactly.                 *)
(***************************************************************************)
\* The defaults of tolerance and max_iterations.
DefaultTolerance == 1000
DefaultMaxIterations == 50

\* "Create modified params with this spending level".
TestParams(p, mid) == [p EXCEPT !.spend_month = mid]

\* "high": the estimate of the upper bound.
RECURSIVE SumOfAmounts(_)
SumOfAmounts(events) ==
    IF events = << >> THEN 0
    ELSE events[1][2] + SumOfAmounts(Tail(events))

\* The upper bound with the one-time events counted among the income.
InitialHigh_WithEvents(p) ==
    LET older_age_now == Max(p.age_now, p.spouse_age_now)
        total_months == PyRound(p.end_age - older_age_now, TicksPerMonth)
        max_estimate ==
            p.liquid_now * 2
            + (p.gross_income_month + p.spouse_gross_income_month) * total_months
            + SumOfAmounts(p.one_time_events)
    IN  IF total_months > 0 THEN max_estimate \div total_months ELSE 1000000

InitialHigh(p) ==
    LET older_age_now == Max(p.age_now, p.spouse_age_now)
        total_months == PyRound(p.end_age - older_age_now, TicksPerMonth)
        max_estimate ==
            p.liquid_now * 2
            + (p.gross_income_month + p.spouse_gross_income_month) * total_months
    IN  IF total_months > 0 THEN max_estimate \div total_months ELSE 1000000

\* MeetsTarget without the feasibility test.
MeetsTarget_IgnoringOk(res, target_end_assets, tolerance) ==
    res.liquid_end >= target_end_assets - tolerance

\* "result.ok and result.liquid_end >= target_end_assets - tolerance".
MeetsTarget(res, target_end_assets, tolerance) ==
    res.ok /\ res.liquid_end >= target_end_assets - tolerance

\* Converged with tolerance in place of tolerance / 10.
Converged_WholeTolerance(low, high, tolerance) == high - low < tolerance

\* "Check convergence": high - low < tolerance / 10.
Converged(low, high, tolerance) == 10 * (high - low) < tolerance

\* The locals before the loop.  evaluated is not a local of the code: it
\* is the history of the values mid has taken, kept for the properties.
MaxExpenseLocals(p, args) ==
    [pc |-> "loop",
     retire_age |-> OrDefault(args.retire_age, p.retire_age),
     spouse_retire_age |-> OrDefault(args.spouse_retire_age, p.spouse_retire_age),
     low |-> 0,
     high |-> InitialHigh(p),
     best_spend |-> None,
     best_result |-> None,
     iteration |-> 0,
     evaluated |-> << >>]

\* The guard of "for iteration in range(max_iterations)" with its break.
BisectContinues(b, args) == b.pc = "loop" /\ b.iteration < args.max_iterations

\* "mid = (low + high) / 2".
Midpoint(b) == (b.low + b.high) \div 2

\* The rest of an iteration once simulate has returned res for mid: the
\* bracket is narrowed, the iteration is counted, convergence is checked.
Narrow(b, mid, res, args) ==
    LET narrowed ==
            IF MeetsTarget(res, args.target_end_assets, args.tolerance)
            THEN [b EXCEPT !.best_spend = << mid >>,
                           !.best_result = << res >>,
                           !.low = mid]
            ELSE [b EXCEPT !.high = mid]
        counted == [narrowed EXCEPT !.iteration = @ + 1,
                                    !.evaluated = Append(@, mid)]
    IN  IF Converged(counted.low, counted.high, args.tolerance)
        THEN [counted EXCEPT !.pc = "verify"]
        ELSE counted

\* One iteration of the binary search: the locals after it.
BisectStep(b, p, args) ==
    Narrow(b, Midpoint(b),
           simulate(b.retire_age, TestParams(p, Midpoint(b)),
                    << b.spouse_retire_age >>),
           args)

\* "Verify the best result actually meets the target" and the returns.
MaxExpenseOutcome(b, args) ==
    IF /\ b.best_spend # None
       /\ b.best_result # None
       /\ MeetsTarget(b.best_result[1], args.target_end_assets, args.tolerance)
    THEN << b.best_spend, b.best_result >>
    ELSE << None, None >>

\* The binary search from the locals b on: the locals after the loop.
RECURSIVE BisectLoop(_, _, _)
BisectLoop(b, p, args) ==
    IF BisectContinues(b, args)
    THEN BisectLoop(BisectStep(b, p, args), p, args)
    ELSE b

\* find_max_monthly_expense as one function: the tuple it returns.
find_max_monthly_expense(p, args) ==
    MaxExpenseOutcome(BisectLoop(MaxExpenseLocals(p, args), p, args), args)

\* The call find_max_monthly_expense(params, target_end_assets, retire_age,
\* spouse_retire_age, tolerance, max_iterations), before its first statement.
MaxExpenseCall(target_end_assets, age, spouse_age, tolerance, max_iterations) ==
    [fn |-> "find_max_monthly_expense",
     args |-> [target_end_assets |-> target_end_assets,
               retire_age |-> age, spouse_retire_age |-> spouse_age,
               tolerance |-> tolerance, max_iterations |-> max_iterations],
     pc |-> "begin",
     retire_age |-> 0, spouse_retire_age |-> 0,
     low |-> 0, high |-> 0, best_spend |-> None, best_result |-> None,
     iteration |-> 0, evaluated |-> << >>]

\* The defaults and "Binary search bounds".
MaxExpenseBegin ==
    /\ search.fn = "find_max_monthly_expense"
    /\ search.pc = "begin"
    /\ search' = MaxExpenseLocals(params, search.args)
                   @@ [fn |-> search.fn, args |-> search.args]
    /\ UNCHANGED << simVars, fnVars, calls, outcome >>

\* One iteration of the binary search.
MaxExpenseIterate ==
    /\ search.fn = "find_max_monthly_expense"
    /\ BisectContinues(search, search.args)
    /\ search' = BisectStep(search, params, search.args)
    /\ UNCHANGED << simVars, fnVars, calls, outcome >>

\* One iteration of the binary search with simulate's result left open: it
\* is any verdict with an end balance on either side of the target test.
MaxExpenseIterateAny ==
    /\ search.fn = "find_max_monthly_expense"
    /\ BisectContinues(search, search.args)
    /\ \E ok \in BOOLEAN, short \in {0, 1} :
          search' = Narrow(search, Midpoint(search),
                           [ok |-> ok,
                            liquid_end |-> search.args.target_end_assets
                                             - search.args.tolerance - short],
                           search.args)
    /\ UNCHANGED << simVars, fnVars, calls, outcome >>

\* The loop is over: the final verification and the return.
MaxExpenseReturn ==
    /\ search.fn = "find_max_monthly_expense"
    /\ search.pc \in {"loop", "verify"}
    /\ ~BisectContinues(search, search.args)
    /\ search' = [search EXCEPT !.pc = "done"]
    /\ outcome' = MaxExpenseOutcome(search, search.args)
    /\ UNCHANGED << simVars, fnVars, calls >>

(***************************************************************************)
(* The searches that are checked                                           *)
(***************************************************************************)
\* Parameter sets for the searches: starting balances for which the first
\* feasible retirement age is the earliest, a later one or none, and a
\* malformed set (a one-time event before the current age).
SearchParams(c) ==
    [BaseParams EXCEPT !.liquid_now = c[1],
                       !.one_time_events = c[2],
                       !.spouse_age_now = c[3]]

SearchParamChoices ==
    {150000, 166000, 180000, 200000}
      \X {<< >>, << << 1, 5000 >> >>, << << 4, 30000 >> >>}
      \X {1, 2, 4}

EarliestChoices ==
    SearchParamChoices
      \X {None, << 1 >>, << 3 >>, << 4 >>, << 7 >>}
      \X {None, << 3 >>, << 5 >>, << 6 >>, << 9 >>}
      \X {None, << 6 >>}
      \X {1, 2}

JointChoices ==
    SearchParamChoices
      \X {None, << 1 >>, << 3 >>, << 4 >>, << 7 >>}
      \X {None, << 3 >>, << 5 >>, << 6 >>, << 9 >>}
      \X {1, 2}

\* The lists of exactly n retirement ages: below the current age, valid
\* ones, and above the pension start age.
RECURSIVE AgeListsOfLen(_)
AgeListsOfLen(n) ==
    IF n = 0 THEN { << >> }
    ELSE { Append(l, a) : l \in AgeListsOfLen(n - 1), a \in {1, 3, 6, 7} }

AgeLists == UNION { AgeListsOfLen(n) : n \in 0..MaxAgeListLen }

CompareChoices ==
    SearchParamChoices
      \X AgeLists
      \X {None, << 6 >>}

\* Parameter sets for the expense search: incomes and balances that make
\* the upper bound a multiple of a large power of two.
MaxExpenseParams(c) ==
    [BaseParams EXCEPT !.gross_income_month = 16384,
                       !.spouse_gross_income_month = 16384,
                       !.liquid_now = c[1],
                       !.min_assets = c[2],
                       !.one_time_events = c[3],
                       !.pension_now = c[4]]

MaxExpenseParamChoices ==
    {0, 196608, 393216}
      \X {0, 150000}
      \X {<< >>, << << 1, 5000 >> >>, << << 4, 49152 >> >>,
          << << 6, 0 - 49152 >> >>, << << 10, 49152 >> >>}
      \X {400000, 4000000}

MaxExpenseChoices ==
    MaxExpenseParamChoices
      \X {0, 200000, 10000000}
      \X {None, << 6 >>}
      \X {DefaultTolerance, 10000}
      \X {0, 3, DefaultMaxIterations}

InitSearch ==
    /\ outcome = << >>
    /\ calls = << >>
    /\ \/ \E c \in EarliestChoices :
             /\ Idle(SearchParams(c[1]))
             /\ search = EarliestCall(c[2], c[3], c[4], c[5])
       \/ \E c \in JointChoices :
             /\ Idle(SearchParams(c[1]))
             /\ search = JointCall(c[2], c[3], c[4])
       \/ \E c \in CompareChoices :
             /\ Idle(SearchParams(c[1]))
             /\ search = CompareCall(c[2], c[3])
       \/ \E c \in MaxExpenseChoices :
             /\ Idle(MaxExpenseParams(c[1]))
             /\ search = MaxExpenseCall(c[2], c[3], None, c[4], c[5])

NextSearch ==
    \/ EarliestBegin \/ EarliestTry \/ EarliestExhausted
    \/ JointBegin \/ JointTry \/ JointExhausted
    \/ CompareBegin \/ CompareScenario \/ CompareReturn
    \/ MaxExpenseBegin \/ MaxExpenseIterate \/ MaxExpenseReturn

SpecSearch == InitSearch /\ [][NextSearch]_vars

\* The expense search alone, whatever simulate returns.  It is sequential
\* code that runs to its return: a step that can be taken is taken.
BisectionChoices ==
    ({196608, 393216} \X {150000} \X {<< >>} \X {400000})
      \X {200000}
      \X {None}
      \X {DefaultTolerance, 10000}
      \X {0, 3, DefaultMaxIterations}

InitBisection ==
    /\ outcome = << >>
    /\ calls = << >>
    /\ \E c \in BisectionChoices :
          /\ Idle(MaxExpenseParams(c[1]))
          /\ search = MaxExpenseCall(c[2], c[3], None, c[4], c[5])

NextBisection == MaxExpenseBegin \/ MaxExpenseIterateAny \/ MaxExpenseReturn

SpecBisection ==
    InitBisection /\ [][NextBisection]_vars /\ WF_vars(NextBisection)

(***************************************************************************)
(* A caller that makes several calls on one Params object                  *)
(*                                                                         *)
(* The caller calls simulate, then again simulate with the same arguments  *)
(* or a function of search.py with the same Params object, one call after  *)
(* the other.  calls lists the calls that have returned, in order.         *)
(***************************************************************************)
\* At most this many calls are made.
MaxCalls == 3

\* Parameter sets of the caller: with and without a one-time event, with a
\* balance that stays above the floor and one that does not.
SessionParams(c) ==
    [BaseParams EXCEPT !.gross_income_month = 16384,
                       !.spouse_gross_income_month = 16384,
                       !.liquid_now = c[1],
                       !.one_time_events = c[2]]

SessionParamChoices ==
    {160000, 196608, 393216}
      \X {<< >>, << << 4, 49152 >> >>, << << 1, 5000 >> >>}

\* The calls of search.py the caller may make.
SessionSearches ==
    { EarliestCall(None, None, None, 1),
      EarliestCall(None, << 3 >>, None, 1),
      JointCall(None, None, 1),
      JointCall(None, << 3 >>, 1),
      CompareCall(<< 1, 3, 6 >>, None),
      MaxExpenseCall(0, None, None, DefaultTolerance, 3),
      MaxExpenseCall(200000, << 6 >>, None, 10000, DefaultMaxIterations) }

InitSession ==
    \E c \in SessionParamChoices :
        Start(Call(SessionParams(c), SessionParams(c).retire_age, None))

\* simulate has returned to the caller.
SimulateReturns ==
    /\ pc = "done"
    /\ calls' = Append(calls, [fn |-> "simulate", params |-> params,
                               retire_age |-> retire_age,
                               spouse_retire_age |-> spouse_retire_age,
                               returned |-> result])
    /\ pc' = "idle"
    /\ UNCHANGED << params, retire_age, spouse_retire_age, month, st, result,
                   fnVars, searchVars >>

\* The function of search.py has returned to the caller.
SearchReturns ==
    /\ search # NoSearch
    /\ outcome # << >>
    /\ calls' = Append(calls, [fn |-> search.fn, params |-> params,
                               args |-> search.args, returned |-> outcome])
    /\ search' = NoSearch
    /\ outcome' = << >>
    /\ UNCHANGED << simVars, fnVars >>

\* The caller calls simulate with the arguments of its first call.
CallSimulate ==
    /\ pc = "idle"
    /\ search = NoSearch
    /\ Len(calls) < MaxCalls
    /\ pc' = "validate"
    /\ UNCHANGED << params, retire_age, spouse_retire_age, month, st, result,
                   fnVars, searchVars, calls >>

\* The caller calls a function of search.py with its Params object.
CallSearch ==
    /\ pc = "idle"
    /\ search = NoSearch
    /\ Len(calls) < MaxCalls
    /\ search' \in SessionSearches
    /\ UNCHANGED << simVars, fnVars, outcome, calls >>

NextSession ==
    \/ Next
    \/ SimulateReturns
    \/ CallSimulate
    \/ CallSearch
    \/ NextSearch
    \/ SearchReturns

SpecSession == InitSession /\ [][NextSession]_vars

(***************************************************************************)
(* Properties                                                              *)
(***************************************************************************)
\* simulate has returned.
Done == pc = "done"

\* The inputs pass every validation check.
Validated == ValidationReason(retire_age, params, sra) = NoReason

\* simulate has returned from below the loop.
Ran == Done /\ Validated

\* The month entries of the returned series.
df == result.df

\* The liquid balance at the end of the run, read from the series: that of
\* the last month, or the starting balance when no month was simulated.
FinalLiquid == IF df = << >> THEN params.liquid_now ELSE df[Len(df)].liquid

\* The recorded liquid balance of month entry i is below the floor.
BelowFloor(i) == df[i].liquid < params.min_assets

\* C1: for inputs that pass validation, ok is true exactly when the liquid
\* balance recorded at the end of every simulated month (after that month's
\* expense) is at least min_assets and the final liquid balance is at least
\* min_assets; a balance equal to the floor is no violation, and a balance
\* that dips below the floor and recovers still makes the run infeasible.
C1_OkIffNeverBelowFloor ==
    Ran => /\ result.liquid_end = FinalLiquid
           /\ result.ok <=> /\ \A i \in 1..Len(df) : ~BelowFloor(i)
                            /\ FinalLiquid >= params.min_assets

\* C1's case: a run that dipped below the floor in some month, ended at or
\* above the floor, and is reported infeasible.
C1_Witness ==
    /\ Ran
    /\ \E i \in 1..Len(df) : BelowFloor(i)
    /\ FinalLiquid >= params.min_assets
    /\ ~result.ok

\* |x|.
Abs(x) == IF x < 0 THEN 0 - x ELSE x

\* n is (end_age - max(age_now, spouse_age_now)) * 12 rounded to the nearest
\* whole number of months, a tie going to the even one.
IsRoundedHorizon(n) ==
    LET d == params.end_age - Max(params.age_now, params.spouse_age_now)
        err == Abs(n * TicksPerMonth - d)
    IN  \/ 2 * err < TicksPerMonth
        \/ 2 * err = TicksPerMonth /\ n % 2 = 0

\* C2: for inputs that pass validation the series holds exactly the months
\* 0..N-1, N = round((end_age - max(age_now, spouse_age_now)) * 12), entry
\* number m with age1 = age_now + m/12 and age2 = spouse_age_now + m/12,
\* whether or not the floor was violated (N <= 0 gives the empty series).
C2_AllMonthsRecorded ==
    Ran => \E n \in -Horizon..Horizon :
              /\ IsRoundedHorizon(n)
              /\ Len(df) = Cardinality(0..(n - 1))
              /\ \A i \in 1..Len(df) :
                    /\ df[i].month = i - 1
                    /\ df[i].age1 = params.age_now + (i - 1) * TicksPerMonth
                    /\ df[i].age2 = params.spouse_age_now + (i - 1) * TicksPerMonth

\* C2's case: the floor was violated in a month that is not the last, and
\* the months after it are in the series.
C2_Witness ==
    /\ Ran
    /\ Len(df) >= 3
    /\ BelowFloor(1)
    /\ df[Len(df)].month = Len(df) - 1

\* The kinds of reason of the four retirement-age checks.
RetireBeforeNow1 == "Person 1 retirement age cannot be before current age"
RetireBeforeNow2 == "Person 2 retirement age cannot be before current age"
RetireAfterPension1 == "Person 1 retirement age cannot be after pension start age"
RetireAfterPension2 == "Person 2 retirement age cannot be after pension start age"
RetireKinds ==
    {RetireBeforeNow1, RetireBeforeNow2, RetireAfterPension1, RetireAfterPension2}

\* A retirement age lies outside [current age, pension start age].
RetireOrderViolated ==
    \/ retire_age < params.age_now
    \/ retire_age > params.pension_start_age
    \/ sra < params.spouse_age_now
    \/ sra > params.spouse_pension_start_age

\* simulate returned without simulating a month: infeasible, empty series.
ReturnedBeforeLoop ==
    /\ ~result.ok
    /\ df = << >>
    /\ month = 0
    /\ st = InitLocals(params)

\* C3: when a retirement age is below the person's current age or above the
\* person's pension start age, simulate returns ok = False with an empty
\* series and a reason naming an ordering violation that holds, without
\* simulating a month; retirement ages equal to the current age or to the
\* pension start age are accepted.
C3_RetireOrderRejected ==
    Done =>
      /\ RetireOrderViolated =>
            /\ ReturnedBeforeLoop
            /\ result.reason.kind \in RetireKinds
            /\ result.reason.kind = RetireBeforeNow1 => retire_age < params.age_now
            /\ result.reason.kind = RetireBeforeNow2 => sra < params.spouse_age_now
            /\ result.reason.kind = RetireAfterPension1 =>
                  retire_age > params.pension_start_age
            /\ result.reason.kind = RetireAfterPension2 =>
                  sra > params.spouse_pension_start_age
      /\ ~RetireOrderViolated => result.reason.kind \notin RetireKinds

\* C3's case: person 1 retires at the current age, which is accepted, and
\* person 2 after the pension start age, which is rejected.
C3_Witness ==
    /\ Done
    /\ retire_age = params.age_now
    /\ sra > params.spouse_pension_start_age
    /\ result.reason.kind = RetireAfterPension2

\* An income schedule has an entry before the current age, at or after the
\* retirement age, or with a negative income.
IncomeScheduleDefect(schedule, now, retire) ==
    \E i \in DOMAIN schedule :
        schedule[i][1] < now \/ schedule[i][1] >= retire \/ schedule[i][2] < 0

\* A one-time event lies outside [age_now, end_age].
EventDefect ==
    \E i \in DOMAIN params.one_time_events :
        \/ params.one_time_events[i][1] < params.age_now
        \/ params.one_time_events[i][1] > params.end_age

\* An expense-schedule entry lies outside [age_now, end_age] or is negative.
ExpenseScheduleDefect ==
    \E i \in DOMAIN params.expense_schedule :
        \/ params.expense_schedule[i][1] < params.age_now
        \/ params.expense_schedule[i][1] > params.end_age
        \/ params.expense_schedule[i][2] < 0

ListDefect ==
    \/ IncomeScheduleDefect(params.income_schedule, params.age_now, retire_age)
    \/ IncomeScheduleDefect(params.spouse_income_schedule, params.spouse_age_now, sra)
    \/ EventDefect
    \/ ExpenseScheduleDefect

\* The kinds of reason of the returns below the loop.
VerdictKinds ==
    {"Assets fell below minimum", "Assets below minimum at end age",
     "Feasible retirement scenario for both people"}

\* The month loop was entered: the run is in it, or has returned from below it.
EnteredLoop == pc = "loop" \/ (Done /\ result.reason.kind \in VerdictKinds)

\* C4: a defect in an income schedule, a one-time event or the expense
\* schedule makes simulate return ok = False with an empty series before any
\* month is simulated; inputs with no such defect and valid retirement ages
\* always enter the month loop.
C4_ListDefectsRejected ==
    /\ pc = "loop" => ~ListDefect /\ ~RetireOrderViolated
    /\ Done => /\ ListDefect => ReturnedBeforeLoop
               /\ (~ListDefect /\ ~RetireOrderViolated) => EnteredLoop
               /\ EnteredLoop => ~ListDefect

\* C4's case: valid retirement ages, a defective list, and the rejection.
C4_Witness ==
    /\ Done
    /\ ~RetireOrderViolated
    /\ EventDefect
    /\ ReturnedBeforeLoop

\* The month loop was entered with inputs that passed validation; st.records
\* is the series so far.
InRun == Validated /\ pc \in {"loop", "done"}

records == st.records

\* The first simulated month in which a person who is now `now` old is at
\* least `a` old.
FirstMonthAtAge(now, a) ==
    IF a <= now THEN 0
    ELSE CHOOSE m \in 1..a :
            now + m * TicksPerMonth >= a /\ now + (m - 1) * TicksPerMonth < a

\* The liquid balance carried into month entry i.
LiquidBefore(i) == IF i = 1 THEN params.liquid_now ELSE records[i - 1].liquid

\* The liquid balance of month entry i after returns, salary with
\* hishtalmut, and one-time events.
LiquidAfterEvents(i) ==
    LiquidBefore(i) * (1 + r_month(params))
    + records[i].salary1_net + records[i].salary2_net
    + records[i].hishtalmut1 + records[i].hishtalmut2
    + records[i].one_time_event

\* The recorded liquid balance of month entry i is what its recorded cash
\* flows make of the balance carried in.
BalanceEquation(i) ==
    records[i].liquid =
        LiquidAfterEvents(i) + records[i].total_pension_income
        + records[i].old_age_pension - records[i].monthly_expense

\* The first month in which one-time event number i (1-based) is due.
EventMonth(i) == FirstMonthAtAge(params.age_now, params.one_time_events[i][1])

\* The sum of the amounts of the events from number i on that are first due
\* in month m.
RECURSIVE AmountDueFrom(_, _)
AmountDueFrom(i, m) ==
    IF i > Len(params.one_time_events) THEN 0
    ELSE (IF EventMonth(i) = m THEN params.one_time_events[i][2] ELSE 0)
         + AmountDueFrom(i + 1, m)

\* C5: within a run each one-time event's amount is added to liquid assets
\* only in the first simulated month whose person-1 age has reached the
\* event's age, never again in a later month, and all events first due in
\* the same month are applied in it.
C5_EventsAppliedOnce ==
    InRun =>
      /\ \A i \in 1..Len(records) :
            /\ records[i].one_time_event = AmountDueFrom(1, i - 1)
            /\ BalanceEquation(i)
      /\ st.applied_events =
            { i - 1 : i \in { j \in DOMAIN params.one_time_events :
                                 EventMonth(j) < Len(records) } }

\* C5's case: two events were applied in the same month and at least two
\* later months, in which their ages are still reached, have been simulated.
C5_Witness ==
    /\ InRun
    /\ \E i, j \in DOMAIN params.one_time_events :
          /\ i < j
          /\ EventMonth(i) = EventMonth(j)
          /\ params.one_time_events[i][2] # 0
          /\ params.one_time_events[j][2] # 0
          /\ Len(records) >= EventMonth(i) + 3
          /\ {i - 1, j - 1} \subseteq st.applied_events

\* C6: every one-time event that passes validation has been applied, in a
\* month of the run, when the run ends.
C6_EveryValidEventApplied ==
    Ran => \A i \in DOMAIN params.one_time_events :
              /\ (i - 1) \in st.applied_events
              /\ EventMonth(i) < Len(df)

\* The months in which the pension payouts activate.
PensionMonth1 == FirstMonthAtAge(params.age_now, params.pension_start_age)
PensionMonth2 ==
    FirstMonthAtAge(params.spouse_age_now, params.spouse_pension_start_age)

\* The pension balances carried into month entry i.
Pension1Before(i) == IF i = 1 THEN params.pension_now ELSE records[i - 1].pension1
Pension2Before(i) ==
    IF i = 1 THEN params.spouse_pension_now ELSE records[i - 1].pension2

\* The pension balances of month entry i after the return and the
\* contributions on the recorded salary.
Pension1AfterContributions(i) ==
    Pension1Before(i) * (1 + r_month(params))
    + (IF records[i].person1_working
       THEN (records[i].salary1_gross * params.pension_rate) \div 1000
            + (records[i].salary1_gross * params.pension_rate_employer) \div 1000
       ELSE 0)
Pension2AfterContributions(i) ==
    Pension2Before(i) * (1 + r_month(params))
    + (IF records[i].person2_working
       THEN (records[i].salary2_gross * params.spouse_pension_rate) \div 1000
            + (records[i].salary2_gross * params.spouse_pension_rate_employer)
              \div 1000
       ELSE 0)

\* C7: a person's monthly payout is fixed in the first month in which the
\* person's age has reached the pension start age, as the pension balance
\* after that month's return and contributions divided by mekadem; it is 0
\* in the series before, and the same value in every later month.
C7_PayoutFixedAtActivation ==
    InRun =>
      \A i \in 1..Len(records) :
        /\ i - 1 < PensionMonth1 => records[i].pension1_income = 0
        /\ i - 1 = PensionMonth1 =>
              /\ records[i].pension1_income =
                    Pension1AfterContributions(i) \div params.mekadem
              /\ records[i].pension1 =
                    Pension1AfterContributions(i) - records[i].pension1_income
        /\ i - 1 > PensionMonth1 =>
              /\ records[i].pension1_income = records[PensionMonth1 + 1].pension1_income
              /\ st.pension1_income_month = records[i].pension1_income
        /\ i - 1 < PensionMonth2 => records[i].pension2_income = 0
        /\ i - 1 = PensionMonth2 =>
              /\ records[i].pension2_income =
                    Pension2AfterContributions(i) \div params.spouse_mekadem
              /\ records[i].pension2 =
                    Pension2AfterContributions(i) - records[i].pension2_income
        /\ i - 1 > PensionMonth2 =>
              /\ records[i].pension2_income = records[PensionMonth2 + 1].pension2_income
              /\ st.pension2_income_month = records[i].pension2_income

\* C7's case: person 1's payout is positive, and two months after its
\* activation the pension balance is another and the payout the same.
C7_Witness ==
    /\ InRun
    /\ Len(records) >= PensionMonth1 + 3
    /\ records[PensionMonth1 + 1].pension1_income > 0
    /\ records[PensionMonth1 + 3].pension1 # records[PensionMonth1 + 1].pension1
    /\ records[PensionMonth1 + 3].pension1
          \div params.mekadem # records[PensionMonth1 + 3].pension1_income
    /\ records[PensionMonth1 + 3].pension1_income
          = records[PensionMonth1 + 1].pension1_income

\* The first month in which a pension payout activates.
FirstPensionMonth == Min(PensionMonth1, PensionMonth2)

\* C8: liquid_at_pension_start is 0 until the first month in which a payout
\* activates; from that month on it is the liquid balance of that month
\* after returns, salary and one-time events and before pension income,
\* old-age benefit and expense, whatever happens later; the Result carries it.
C8_LiquidAtFirstPension ==
    InRun =>
      /\ Len(records) <= FirstPensionMonth =>
            st.liquid_at_first_pension_start = 0
      /\ Len(records) > FirstPensionMonth =>
            /\ st.liquid_at_first_pension_start =
                  LiquidAfterEvents(FirstPensionMonth + 1)
            /\ BalanceEquation(FirstPensionMonth + 1)
      /\ Done => result.liquid_at_pension_start = st.liquid_at_first_pension_start

\* C8's case: the two payouts activated in different months, and the liquid
\* balance at the second activation was another than the one kept.
C8_Witness ==
    /\ Ran
    /\ PensionMonth1 # PensionMonth2
    /\ Len(records) > Max(PensionMonth1, PensionMonth2)
    /\ LiquidAfterEvents(Max(PensionMonth1, PensionMonth2) + 1)
          # result.liquid_at_pension_start
    /\ result.liquid_at_pension_start # 0

\* The resolvers have returned.
Answered == answer # << >>

\* The entries of the queried schedule with age <= the queried age.
Qualifying == { i \in DOMAIN query.schedule : query.schedule[i][1] <= query.age }

\* The queried schedule is sorted ascending by age.
SortedByAge ==
    \A i, j \in DOMAIN query.schedule :
        i < j => query.schedule[i][1] <= query.schedule[j][1]

\* v is the base value when no entry qualifies, and otherwise the value of a
\* qualifying entry of the largest age.
IsValueAtLargestAge(v) ==
    IF Qualifying = {} THEN v = query.base
    ELSE \E i \in Qualifying :
            /\ \A j \in Qualifying : query.schedule[j][1] <= query.schedule[i][1]
            /\ v = query.schedule[i][2]

\* v is the base value when no entry qualifies, and otherwise the value of
\* the qualifying entry that comes last in the list.
IsValueOfLastListed(v) ==
    IF Qualifying = {} THEN v = query.base
    ELSE \E i \in Qualifying :
            /\ \A j \in Qualifying : j <= i
            /\ v = query.schedule[i][2]

\* C9 as claimed: for every schedule, both resolvers return the base value
\* when no entry has age <= the queried age, and otherwise the value of the
\* entry with the largest such age.
C9_ResolverLargestAge ==
    Answered => IsValueAtLargestAge(answer[1]) /\ IsValueAtLargestAge(answer[2])

\* C9 amended: both resolvers return the base value when no entry has age
\* <= the queried age and otherwise the value of the last such entry in list
\* order, which for a schedule sorted ascending by age is the value of the
\* entry with the largest such age.
C9_ResolverSorted ==
    Answered =>
      /\ IsValueOfLastListed(answer[1]) /\ IsValueOfLastListed(answer[2])
      /\ SortedByAge =>
            IsValueAtLargestAge(answer[1]) /\ IsValueAtLargestAge(answer[2])

\* C9's case: a sorted schedule with two qualifying entries of different
\* ages and values and an entry that does not qualify; the later qualifying
\* entry's value is returned.
C9_Witness ==
    /\ Answered
    /\ SortedByAge
    /\ Len(query.schedule) = 3
    /\ Qualifying = {1, 2}
    /\ query.schedule[1][1] < query.schedule[2][1]
    /\ query.schedule[1][2] # query.schedule[2][2]
    /\ answer = << query.schedule[2][2], query.schedule[2][2] >>

\* Zero return, zero contribution rates, no income or expense schedule.
ZeroSetting ==
    /\ params.r_annual_real = 0
    /\ \A f \in DOMAIN DefaultRates : params[f] = 0
    /\ params.income_schedule = << >>
    /\ params.spouse_income_schedule = << >>
    /\ params.expense_schedule = << >>

\* The household's net monthly income: gross minus tax, both people.
NetMonthlyIncome ==
    (params.gross_income_month
       - calculate_monthly_tax_from_gross(params.gross_income_month))
    + (params.spouse_gross_income_month
         - calculate_monthly_tax_from_gross(params.spouse_gross_income_month))

\* The additive cash flow over the first k months.
AdditiveAfter(k) ==
    records[k].liquid =
        params.liquid_now + k * (NetMonthlyIncome - params.spend_month)

\* C10 as claimed: with zero return, zero contribution rates and no
\* schedules, the liquid balance after N months is
\* liquid_now + N * (net monthly income - monthly expense).
C10_AdditiveCashFlow ==
    (InRun /\ ZeroSetting) => \A k \in 1..Len(records) : AdditiveAfter(k)

\* In month entry i both people are working and no one-time event and no
\* old-age benefit is paid.
PlainWorkingMonth(i) ==
    /\ records[i].person1_working
    /\ records[i].person2_working
    /\ records[i].one_time_event = 0
    /\ records[i].old_age_pension = 0

\* C10 amended: the same, for the first N months in each of which both
\* people are working and no one-time event and no old-age benefit is paid.
C10_AdditiveWhileWorking ==
    (InRun /\ ZeroSetting) =>
        \A k \in 1..Len(records) :
            (\A i \in 1..k : PlainWorkingMonth(i)) => AdditiveAfter(k)

\* C10's case: two plain working months with income and expense, followed by
\* a month in which the additive formula no longer holds.
C10_Witness ==
    /\ InRun
    /\ ZeroSetting
    /\ Len(records) >= 3
    /\ PlainWorkingMonth(1) /\ PlainWorkingMonth(2)
    /\ records[2].salary1_net > 0 /\ records[2].salary2_net > 0
    /\ records[2].salary1_net < records[2].salary1_gross
    /\ params.spend_month > 0
    /\ AdditiveAfter(2)
    /\ ~AdditiveAfter(3)

\* The net salary of a month's gross salary, as SalaryPerson1 and
\* SalaryPerson2 compute it.
NetSalary(gross, pension_rate, cap, hishtalmut_rate_employee) ==
    gross - calculate_monthly_tax_from_gross(gross)
          - (gross * pension_rate) \div 1000
          - (Min(gross, cap) * hishtalmut_rate_employee) \div 1000

\* In every month of the horizon person 1's net income at that age exceeds
\* the household expense at that age; the same for person 2.
IncomeExceedsExpense1 ==
    \A m \in 0..(TotalMonths(params) - 1) :
        NetSalary(get_income_at_age(Age1(params, m), params.gross_income_month,
                                    params.income_schedule),
                  params.pension_rate, params.hishtalmut_salary_cap,
                  params.hishtalmut_rate_employee)
          > get_expense_at_age(Age1(params, m), params.spend_month,
                               params.expense_schedule)

IncomeExceedsExpense2 ==
    \A m \in 0..(TotalMonths(params) - 1) :
        NetSalary(get_income_at_age(Age2(params, m), params.spouse_gross_income_month,
                                    params.spouse_income_schedule),
                  params.spouse_pension_rate, params.spouse_hishtalmut_salary_cap,
                  params.spouse_hishtalmut_rate_employee)
          > get_expense_at_age(Age1(params, m), params.spend_month,
                               params.expense_schedule)

\* The end-of-horizon liquid balance when person 1 retires at age later
\* instead, and when person 2 does, every other argument as in the call.
LiquidEndLater1(later) == simulate(later, params, spouse_retire_age).liquid_end
LiquidEndLater2(later) == simulate(retire_age, params, << later >>).liquid_end

\* C11: when a person's net income exceeds the household expense, a later
\* valid retirement age of that person, everything else fixed, never gives
\* a smaller end-of-horizon liquid balance than the simulated one.
C11_LaterRetirementNotWorse ==
    (Done /\ Validated) =>
      /\ IncomeExceedsExpense1 =>
            \A later \in (retire_age + 1)..params.pension_start_age :
                LiquidEndLater1(later) >= result.liquid_end
      /\ IncomeExceedsExpense2 =>
            \A later \in (sra + 1)..params.spouse_pension_start_age :
                LiquidEndLater2(later) >= result.liquid_end

\* C11's case: person 1's net income exceeds the expense, and retiring one
\* month later ends with a strictly larger balance.
C11_Witness ==
    /\ Done /\ Validated
    /\ IncomeExceedsExpense1
    /\ params.spend_month > 0
    /\ retire_age + TicksPerMonth <= params.pension_start_age
    /\ LiquidEndLater1(retire_age + TicksPerMonth) > result.liquid_end

\* find_earliest_retirement has returned.
EarliestReturned == search.fn = "find_earliest_retirement" /\ outcome # << >>

\* The clamped bounds of the claim: max(min_age, age_now) and
\* min(max_age, pension_start_age), an absent bound being the clamp itself.
ClampedLower == Max(OrDefault(search.args.min_age, params.age_now), params.age_now)
ClampedUpper ==
    Min(OrDefault(search.args.max_age, params.pension_start_age),
        params.pension_start_age)

\* The k-th age of the scan, counting from 0, and simulate's result for it
\* with the other person's retirement age held fixed.
ScanAge(k) ==
    Min(ClampedLower + k * search.args.step_months * TicksPerMonth, ClampedUpper)
ScanResult(k) ==
    simulate(ScanAge(k), params,
             << OrDefault(search.args.spouse_retire_age, params.spouse_retire_age) >>)

\* The positions the scan visits when no candidate is feasible: steps of
\* step_months up to the rounded number of months between the bounds, and
\* none after the upper bound has been tried.
ScanPositions ==
    { k \in 0..PyRound(ClampedUpper - ClampedLower, TicksPerMonth) :
        /\ k * search.args.step_months
             <= PyRound(ClampedUpper - ClampedLower, TicksPerMonth)
        /\ \A j \in 0..(k - 1) : ScanAge(j) < ClampedUpper }

\* C12: find_earliest_retirement returns (None, None) when the clamped lower
\* bound exceeds the clamped upper bound or no scanned candidate is
\* feasible; otherwise it returns the first feasible candidate of a strictly
\* increasing scan from the clamped lower bound towards the clamped upper
\* bound, together with simulate's result for it, so that every candidate
\* before it is infeasible and the returned age lies inside the bounds.
C12_EarliestIsFirstFeasible ==
    EarliestReturned =>
        IF ClampedLower > ClampedUpper
        THEN outcome = << None, None >>
        ELSE /\ \A j, k \in ScanPositions : j < k => ScanAge(j) < ScanAge(k)
             /\ ScanAge(0) = ClampedLower
             /\ IF \E k \in ScanPositions : ScanResult(k).ok
                THEN \E k \in ScanPositions :
                        /\ ScanResult(k).ok
                        /\ \A j \in ScanPositions : j < k => ~ScanResult(j).ok
                        /\ outcome = << << ScanAge(k) >>, << ScanResult(k) >> >>
                        /\ ClampedLower <= ScanAge(k)
                        /\ ScanAge(k) <= ClampedUpper
                ELSE outcome = << None, None >>

\* C12's case: an age is returned after two infeasible candidates, and it is
\* the clamped upper bound, which lies between two steps of the scan.
C12_Witness ==
    /\ EarliestReturned
    /\ outcome[1] = << ClampedUpper >>
    /\ outcome[2][1].ok
    /\ search.m = 2
    /\ ClampedLower + search.m * TicksPerMonth > ClampedUpper
    /\ ~ScanResult(0).ok /\ ~ScanResult(1).ok

\* find_earliest_joint_retirement has returned.
JointReturned == search.fn = "find_earliest_joint_retirement" /\ outcome # << >>

\* The bounds of the joint scan: the older current age and the earlier
\* pension start age, narrowed by min_age and max_age when given.
JointLower ==
    LET older_now == Max(params.age_now, params.spouse_age_now)
    IN  Max(OrDefault(search.args.min_age, older_now), older_now)
JointUpper ==
    LET first_pension ==
            Min(params.pension_start_age, params.spouse_pension_start_age)
    IN  Min(OrDefault(search.args.max_age, first_pension), first_pension)

\* The k-th pair of the joint scan, counting from 0: the secondary age is
\* the primary age minus (age_now - spouse_age_now).
JointAge1(k) == JointLower + k * search.args.step_months * TicksPerMonth
JointAge2(k) == JointAge1(k) - (params.age_now - params.spouse_age_now)
JointResult(k) == simulate(JointAge1(k), params, << JointAge2(k) >>)

\* Either age of the k-th pair exceeds that person's pension start age;
\* either age is below that person's current age.
JointStops(k) ==
    \/ JointAge1(k) > params.pension_start_age
    \/ JointAge2(k) > params.spouse_pension_start_age
JointSkips(k) ==
    \/ JointAge1(k) < params.age_now
    \/ JointAge2(k) < params.spouse_age_now

\* The positions whose pair is simulated when no pair is feasible.
JointPositions ==
    { k \in 0..PyRound(JointUpper - JointLower, TicksPerMonth) :
        /\ k * search.args.step_months
             <= PyRound(JointUpper - JointLower, TicksPerMonth)
        /\ \A j \in 0..k : ~JointStops(j)
        /\ ~JointSkips(k) }

\* C13: find_earliest_joint_retirement returns the first pair, in increasing
\* order of the primary age, for which simulate reports ok, among the pairs
\* (a, a - (age_now - spouse_age_now)) scanned before either age exceeds its
\* pension start age and with neither age below the current age; a returned
\* pair keeps the age gap and has both ages within [current age, pension
\* start age]; (None, None, None) is returned when no such pair is feasible.
C13_JointIsFirstFeasiblePair ==
    JointReturned =>
        IF JointLower > JointUpper
        THEN outcome = << None, None, None >>
        ELSE IF \E k \in JointPositions : JointResult(k).ok
        THEN \E k \in JointPositions :
                /\ JointResult(k).ok
                /\ \A j \in JointPositions : j < k => ~JointResult(j).ok
                /\ outcome = << << JointAge1(k) >>, << JointAge2(k) >>,
                                << JointResult(k) >> >>
                /\ outcome[1][1] - outcome[2][1]
                     = params.age_now - params.spouse_age_now
                /\ params.age_now <= outcome[1][1]
                /\ outcome[1][1] <= params.pension_start_age
                /\ params.spouse_age_now <= outcome[2][1]
                /\ outcome[2][1] <= params.spouse_pension_start_age
        ELSE outcome = << None, None, None >>

\* C13's case: a pair of different ages is returned after an infeasible one.
C13_Witness ==
    /\ JointReturned
    /\ outcome # << None, None, None >>
    /\ outcome[3][1].ok
    /\ outcome[1][1] # outcome[2][1]
    /\ search.m > 0
    /\ ~JointResult(0).ok

\* compare_scenarios has returned.
CompareReturned == search.fn = "compare_scenarios" /\ outcome # << >>

\* simulate's result for the i-th age of the input list, the secondary
\* retirement age fixed.
ScenarioResult(i) ==
    simulate(search.args.retirement_ages[i], params,
             << OrDefault(search.args.spouse_retire_age, params.spouse_retire_age) >>)

\* C14: compare_scenarios returns exactly one record per age of the input
\* list, in input order, each with that age's simulate verdict and reason;
\* an age that fails validation or solvency gives a record with
\* feasible = False and the batch goes on.
C14_OneRecordPerAge ==
    CompareReturned =>
        /\ Len(outcome[1]) = Len(search.args.retirement_ages)
        /\ \A i \in DOMAIN search.args.retirement_ages :
              /\ outcome[1][i].retirement_age = search.args.retirement_ages[i]
              /\ outcome[1][i].feasible = ScenarioResult(i).ok
              /\ outcome[1][i].reason = ScenarioResult(i).reason
              /\ outcome[1][i].liquid_end = ScenarioResult(i).liquid_end

\* C14's case: a batch of three ages of which the first fails validation,
\* the second fails solvency and the third is feasible.
C14_Witness ==
    /\ CompareReturned
    /\ Len(search.args.retirement_ages) = 3
    /\ Len(outcome[1]) = 3
    /\ ~outcome[1][1].feasible
    /\ outcome[1][1].reason.kind = RetireAfterPension1
    /\ ~outcome[1][2].feasible
    /\ outcome[1][2].reason.kind = "Assets fell below minimum"
    /\ outcome[1][3].feasible

\* find_max_monthly_expense has returned.
MaxExpenseReturned == search.fn = "find_max_monthly_expense" /\ outcome # << >>

\* simulate's result with spend_month = spend and the retirement ages of
\* the expense search, and whether it passes the test of the search.
DirectResult(spend) ==
    simulate(OrDefault(search.args.retire_age, params.retire_age),
             TestParams(params, spend),
             << OrDefault(search.args.spouse_retire_age, params.spouse_retire_age) >>)
Satisfies(spend) ==
    /\ DirectResult(spend).ok
    /\ DirectResult(spend).liquid_end
         >= search.args.target_end_assets - search.args.tolerance

\* C15: when find_max_monthly_expense returns an expense E, simulate with
\* spend_month = E and the same retirement ages reports ok and ends with
\* liquid assets that differ from target_end_assets by at most tolerance.
C15_ReturnedExpenseHitsTarget ==
    (MaxExpenseReturned /\ outcome[1] # None) =>
        /\ DirectResult(outcome[1][1]).ok
        /\ Abs(DirectResult(outcome[1][1]).liquid_end - search.args.target_end_assets)
             <= search.args.tolerance

\* The binary search of find_max_monthly_expense is under way or over.
InBisection ==
    search.fn = "find_max_monthly_expense" /\ search.pc \in {"loop", "verify", "done"}

\* The midpoints evaluated so far, and those that passed the test.
Evaluated == { search.evaluated[i] : i \in DOMAIN search.evaluated }
SatisfyingMidpoints == { mid \in Evaluated : Satisfies(mid) }

\* C16: throughout the search low <= high, low is 0 or a satisfying
\* midpoint, and high is the initial estimate or a failing midpoint;
\* (None, None) is returned exactly when no evaluated midpoint gave ok and
\* liquid_end >= target_end_assets - tolerance, and otherwise the largest
\* satisfying midpoint, which is the final low, with its own result.
C16_BisectionBracket ==
    /\ InBisection =>
          /\ search.low <= search.high
          /\ \/ search.low = 0
             \/ search.low \in SatisfyingMidpoints
          /\ \/ search.high = InitialHigh(params)
             \/ search.high \in Evaluated \ SatisfyingMidpoints
    /\ MaxExpenseReturned =>
          IF SatisfyingMidpoints = {}
          THEN outcome = << None, None >>
          ELSE /\ outcome[1] # None
               /\ outcome[1][1] \in SatisfyingMidpoints
               /\ \A mid \in SatisfyingMidpoints : mid <= outcome[1][1]
               /\ outcome[1][1] = search.low
               /\ outcome[2] = << DirectResult(outcome[1][1]) >>

\* C16's case: a search that returns its third satisfying midpoint after
\* failing ones, the feasibility verdict having decided at least one of the
\* failures.
C16_Witness ==
    /\ MaxExpenseReturned
    /\ Cardinality(SatisfyingMidpoints) >= 3
    /\ Cardinality(Evaluated \ SatisfyingMidpoints) >= 3
    /\ outcome[1] = << search.low >>
    /\ search.low > 0
    /\ search.high < InitialHigh(params)
    /\ \E mid \in Evaluated :
          /\ ~DirectResult(mid).ok
          /\ DirectResult(mid).liquid_end
               >= search.args.target_end_assets - search.args.tolerance

\* The bracket is narrower than a tenth of the tolerance.
WidthBelowTenth == 10 * (search.high - search.low) < search.args.tolerance

\* An iteration of the binary search is taken in this step.
IterationTaken ==
    /\ search.fn = "find_max_monthly_expense"
    /\ search'.iteration # search.iteration

\* C17: the binary search terminates: every iteration is one more simulate
\* call of at most max_iterations, halves high - low, and is taken only
\* while the width has not dropped below tolerance / 10 in an earlier
\* iteration; the loop is left before max_iterations only for that reason;
\* and every call returns.
C17_BisectionTerminates ==
    /\ [][IterationTaken =>
            /\ search'.iteration = search.iteration + 1
            /\ Len(search'.evaluated) = Len(search.evaluated) + 1
            /\ search'.iteration <= search.args.max_iterations
            /\ 2 * (search'.high - search'.low) = search.high - search.low
            /\ search.iteration > 0 => ~WidthBelowTenth]_vars
    /\ [](InBisection =>
            /\ Len(search.evaluated) = search.iteration
            /\ search.iteration <= search.args.max_iterations
            /\ (search.pc = "verify" => WidthBelowTenth)
            /\ (search.pc = "done" /\ search.iteration < search.args.max_iterations
                  => WidthBelowTenth))
    /\ (search.fn = "find_max_monthly_expense") ~> MaxExpenseReturned

\* C17's case: a search that stopped on convergence after more than eight
\* iterations, before max_iterations.
C17_Witness ==
    /\ MaxExpenseReturned
    /\ search.iteration > 8
    /\ search.iteration < search.args.max_iterations
    /\ WidthBelowTenth
    /\ search.high - search.low > 0

(***************************************************************************)
(* The "no solution" return of the searches                                *)
(***************************************************************************)
\* A defect of params that simulate rejects whatever retirement ages are
\* tried: a one-time event or an expense-schedule entry outside
\* [age_now, end_age].
ParamsDefect == EventDefect \/ ExpenseScheduleDefect

\* A search has returned its "no solution" value: (None, None) from
\* find_earliest_retirement and find_max_monthly_expense, (None, None, None)
\* from find_earliest_joint_retirement.
NoSolutionReturned ==
    \/ EarliestReturned /\ outcome = << None, None >>
    \/ JointReturned /\ outcome = << None, None, None >>
    \/ MaxExpenseReturned /\ outcome = << None, None >>

\* C18: the "no solution" value of find_earliest_retirement,
\* find_earliest_joint_retirement and find_max_monthly_expense is returned
\* only for well-formed params in which no candidate is feasible; params
\* with a validation defect give an outcome that differs from it.
C18_NoSolutionDistinctFromMalformed == NoSolutionReturned => ~ParamsDefect

(***************************************************************************)
(* The reason of a solvency failure                                        *)
(***************************************************************************)
\* The first entry of series s whose balance is below the floor; 0 if none.
FirstBelow(s) ==
    IF \E i \in 1..Len(s) : s[i].liquid < params.min_assets
    THEN CHOOSE i \in 1..Len(s) :
             /\ s[i].liquid < params.min_assets
             /\ \A j \in 1..(i - 1) : s[j].liquid >= params.min_assets
    ELSE 0

\* The reason recorded for a violation in entry i of series s.
FellBelowAt(s, i) == Reason("Assets fell below minimum", s[i].age1, s[i].age2)

\* C19: a run with a month below the floor returns ok = False with the
\* "fell below minimum" reason carrying both ages of the first such month,
\* and that reason is set in that month and kept through every later month;
\* a run with no month below the floor whose final balance is below it
\* returns ok = False with the "below minimum at end age" reason; a run
\* that entered the loop fails with no other reason.
C19_SolvencyReasons ==
    /\ pc = "loop" =>
           /\ st.min_assets_violated <=> FirstBelow(st.records) # 0
           /\ st.min_assets_violated =>
                  st.min_assets_violation_reason
                      = FellBelowAt(st.records, FirstBelow(st.records))
    /\ Ran =>
           /\ FirstBelow(df) # 0 =>
                  /\ ~result.ok
                  /\ result.reason = FellBelowAt(df, FirstBelow(df))
           /\ (FirstBelow(df) = 0 /\ FinalLiquid < params.min_assets) =>
                  /\ ~result.ok
                  /\ result.reason = Reason("Assets below minimum at end age",
                                            params.min_assets, FinalLiquid)
           /\ ~result.ok =>
                  result.reason.kind \in {"Assets fell below minimum",
                                          "Assets below minimum at end age"}

\* C19's case: a returned run whose first month below the floor is followed
\* by a month at or above it and then by another month below it, reported
\* with the ages of the first.
C19_Witness ==
    /\ Ran
    /\ FirstBelow(df) # 0
    /\ \E j, k \in 1..Len(df) :
           /\ FirstBelow(df) < j /\ j < k
           /\ df[j].liquid >= params.min_assets
           /\ df[k].liquid < params.min_assets
    /\ result.reason = FellBelowAt(df, FirstBelow(df))

(***************************************************************************)
(* find_max_monthly_expense under an added event or income schedule        *)
(***************************************************************************)
\* The call in progress repeated with params p: what it returns, and the
\* expenses it evaluates.
MaxExpenseFor(p) == find_max_monthly_expense(p, search.args)
EvaluatedFor(p) ==
    LET b == BisectLoop(MaxExpenseLocals(p, search.args), p, search.args)
    IN  { b.evaluated[i] : i \in DOMAIN b.evaluated }

\* The test of the binary search for expense mid under params p.
PassesFor(p, mid) ==
    MeetsTarget(simulate(OrDefault(search.args.retire_age, p.retire_age),
                         TestParams(p, mid),
                         << OrDefault(search.args.spouse_retire_age,
                                      p.spouse_retire_age) >>),
                search.args.target_end_assets, search.args.tolerance)

\* A returned tuple carries an expense; that expense.
HasExpense(out) == out[1] # None
Expense(out) == out[1][1]

\* params with one more one-time event, and with an income schedule for
\* person 1.
WithEvent(p, e) == [p EXCEPT !.one_time_events = Append(@, e)]
WithIncomeSchedule(p, schedule) == [p EXCEPT !.income_schedule = schedule]

\* Inflows and outflows inside the horizon, large and of one shekel, and on
\* the horizon; schedules that raise and that lower the income of 16384
\* from the first month on and from age 3 on, which is past the last month
\* worked when the retirement age is 4.
AddedInflows == { << 4, 49152 >>, << 4, 1 >>, << 10, 49152 >> }
AddedOutflows == { << 6, 0 - 49152 >>, << 4, 0 - 1 >>, << 10, 0 - 49152 >> }
RaisedIncome == { << << 2, 30000 >> >>, << << 3, 30000 >> >> }
LoweredIncome == { << << 2, 9000 >> >>, << << 3, 9000 >> >> }

\* Both calls return an expense and that of better is the larger one.
StrictlyLarger(worse, better) ==
    /\ HasExpense(MaxExpenseFor(worse))
    /\ HasExpense(MaxExpenseFor(better))
    /\ Expense(MaxExpenseFor(better)) > Expense(MaxExpenseFor(worse))

\* An expense that the search under worse evaluates fails its test under
\* worse and passes it under better.
Flips(worse, better) ==
    \E mid \in EvaluatedFor(worse) :
        ~PassesFor(worse, mid) /\ PassesFor(better, mid)

\* The call under better returns an expense whenever the call under worse
\* does, and never a smaller one; its result is larger, or present where
\* the other is absent, exactly when an evaluated expense flips.
NotSmaller(worse, better) ==
    LET lo == MaxExpenseFor(worse)
        hi == MaxExpenseFor(better)
    IN  /\ HasExpense(lo) =>
               /\ HasExpense(hi)
               /\ Expense(hi) >= Expense(lo)
               /\ Expense(hi) > Expense(lo) <=> Flips(worse, better)
        /\ ~HasExpense(lo) => (HasExpense(hi) <=> Flips(worse, better))

\* find_max_monthly_expense has returned for params without events and
\* schedules.
PlainReturned ==
    /\ MaxExpenseReturned
    /\ params.one_time_events = << >>
    /\ params.income_schedule = << >>

\* C20 as stated: with every other parameter equal, and whenever both calls
\* return an expense, find_max_monthly_expense returns a strictly larger
\* expense with an added positive one-time event or an income schedule that
\* raises income, and a strictly smaller one with an added negative event
\* or a schedule that lowers income.
C20_StrictlyMonotone ==
    PlainReturned =>
        /\ \A e \in AddedInflows :
               (HasExpense(outcome) /\ HasExpense(MaxExpenseFor(WithEvent(params, e))))
                   => StrictlyLarger(params, WithEvent(params, e))
        /\ \A e \in AddedOutflows :
               (HasExpense(outcome) /\ HasExpense(MaxExpenseFor(WithEvent(params, e))))
                   => StrictlyLarger(WithEvent(params, e), params)
        /\ \A s \in RaisedIncome :
               (HasExpense(outcome) /\ HasExpense(MaxExpenseFor(WithIncomeSchedule(params, s))))
                   => StrictlyLarger(params, WithIncomeSchedule(params, s))
        /\ \A s \in LoweredIncome :
               (HasExpense(outcome) /\ HasExpense(MaxExpenseFor(WithIncomeSchedule(params, s))))
                   => StrictlyLarger(WithIncomeSchedule(params, s), params)

\* C20, amended: with every other parameter equal, an added positive event
\* or a schedule that raises income never gives a smaller expense, and an
\* added negative event or a schedule that lowers income never a larger
\* one; the expense differs exactly when the change flips the test of an
\* expense that the search evaluates.
C20_MonotoneStrictOnFlip ==
    PlainReturned =>
        /\ outcome = MaxExpenseFor(params)
        /\ \A e \in AddedInflows : NotSmaller(params, WithEvent(params, e))
        /\ \A e \in AddedOutflows : NotSmaller(WithEvent(params, e), params)
        /\ \A s \in RaisedIncome : NotSmaller(params, WithIncomeSchedule(params, s))
        /\ \A s \in LoweredIncome : NotSmaller(WithIncomeSchedule(params, s), params)

\* C20's case: a returned search whose expense grows by more than the
\* tolerance with an inflow of 49152 at age 4 and shrinks with an outflow
\* of 49152 at age 6.
C20_Witness ==
    /\ PlainReturned
    /\ StrictlyLarger(params, WithEvent(params, << 4, 49152 >>))
    /\ Expense(MaxExpenseFor(WithEvent(params, << 4, 49152 >>)))
           - Expense(outcome) > search.args.tolerance
    /\ StrictlyLarger(WithEvent(params, << 6, 0 - 49152 >>), params)

(***************************************************************************)
(* No state is kept between calls                                          *)
(***************************************************************************)
\* Call number i of the caller was a call of simulate.
IsSimulateCall(i) == calls[i].fn = "simulate"

\* Calls i and j of simulate had equal arguments.
EqualArguments(i, j) ==
    /\ calls[i].params = calls[j].params
    /\ calls[i].retire_age = calls[j].retire_age
    /\ calls[i].spouse_retire_age = calls[j].spouse_retire_age

TaxReturned == answer # << >>
gross == query.gross_monthly_income
tax == answer[1]

\* The bracket that contains annual income income > 0: the one whose
\* threshold is below it and whose successor's threshold, if there is a
\* successor, is not.
ContainingBracket(income) ==
    CHOOSE k \in DOMAIN ISRAELI_TAX_BRACKETS :
        /\ ISRAELI_TAX_BRACKETS[k].threshold < income
        /\ k < Len(ISRAELI_TAX_BRACKETS) =>
               income <= ISRAELI_TAX_BRACKETS[k + 1].threshold

\* 100 times the annual income tax of the claim: base_tax + (income -
\* threshold) * rate of the containing bracket, rate in percent.
BracketTax100(income) ==
    LET b == ISRAELI_TAX_BRACKETS[ContainingBracket(income)]
    IN  100 * b.base_tax + (income - b.threshold) * b.rate

\* 10000 times the national insurance of the claim: 4.27% of the income
\* up to 7,522 plus 12.17% of the part above it, the income capped at
\* 50,695.
Insurance10000(income) ==
    427 * Min(income, 7522) + 1217 * Max(0, Min(income, 50695) - 7522)

\* 30000 times income tax / 12 + national insurance.
MonthlyTax30000(income) ==
    25 * BracketTax100(12 * income) + 3 * Insurance10000(income)

\* C22: calculate_monthly_tax_from_gross(g) is 0 for g <= 0; for g > 0 it
\* is calculate_income_tax(12 g) / 12 + calculate_national_insurance(g),
\* in whole shekels, with the income tax that of the bracket containing
\* 12 g and the insurance 4.27% up to 7,522 plus 12.17% above it on the
\* income capped at 50,695, so that incomes above the cap pay the insurance
\* of the cap; the result is never negative and is a function of g alone.
C22_MonthlyTax ==
    TaxReturned =>
        /\ gross <= 0 => tax = 0
        /\ gross > 0 =>
               /\ calculate_income_tax(12 * gross) = BracketTax100(12 * gross)
               /\ calculate_national_insurance(gross) = Insurance10000(gross)
               /\ 30000 * tax <= MonthlyTax30000(gross)
               /\ MonthlyTax30000(gross) < 30000 * (tax + 1)
        /\ gross > 50695 =>
               calculate_national_insurance(gross)
                   = calculate_national_insurance(50695)
        /\ tax >= 0
        /\ tax = calculate_monthly_tax_from_gross(gross)

\* C22's case: the tax of an income above the insurance cap and in the
\* highest bracket.
C22_Witness ==
    /\ TaxReturned
    /\ gross > 50695
    /\ 12 * gross > 721560
    /\ tax > 0

(***************************************************************************)
(* Salary and contributions of a month                                     *)
(***************************************************************************)
\* The incomes of the schedule entries whose age has been reached at age.
ApplicableIncomes(age, schedule) ==
    { schedule[k][2] : k \in { j \in DOMAIN schedule : schedule[j][1] <= age } }

\* gross is the schedule-resolved income at age: what get_income_at_age
\* returns, which is the base income only while no entry applies.
IsResolvedIncome(g, age, base, schedule) ==
    /\ g = get_income_at_age(age, base, schedule)
    /\ IF ApplicableIncomes(age, schedule) = {}
       THEN g = base
       ELSE g \in ApplicableIncomes(age, schedule)

\* x per mille of amount, in whole shekels.
PerMille(amount, x) == (amount * x) \div 1000

\* Month entry i of a working person 1: gross, net, supplementary savings
\* and pension balance.
WorkingMonth1(i) ==
    LET r == records[i]
        g == r.salary1_gross
        capped == Min(g, params.hishtalmut_salary_cap)
    IN  /\ IsResolvedIncome(g, r.age1, params.gross_income_month,
                            params.income_schedule)
        /\ r.salary1_net =
               g - calculate_monthly_tax_from_gross(g)
               - PerMille(g, params.pension_rate)
               - PerMille(capped, params.hishtalmut_rate_employee)
        /\ r.hishtalmut1 =
               PerMille(capped, params.hishtalmut_rate_employee)
               + PerMille(capped, params.hishtalmut_rate_employer)
        /\ r.pension1 =
               Pension1Before(i) * (1 + r_month(params))
               + PerMille(g, params.pension_rate)
               + PerMille(g, params.pension_rate_employer)

\* The same for person 2.
WorkingMonth2(i) ==
    LET r == records[i]
        g == r.salary2_gross
        capped == Min(g, params.spouse_hishtalmut_salary_cap)
    IN  /\ IsResolvedIncome(g, r.age2, params.spouse_gross_income_month,
                            params.spouse_income_schedule)
        /\ r.salary2_net =
               g - calculate_monthly_tax_from_gross(g)
               - PerMille(g, params.spouse_pension_rate)
               - PerMille(capped, params.spouse_hishtalmut_rate_employee)
        /\ r.hishtalmut2 =
               PerMille(capped, params.spouse_hishtalmut_rate_employee)
               + PerMille(capped, params.spouse_hishtalmut_rate_employer)
        /\ r.pension2 =
               Pension2Before(i) * (1 + r_month(params))
               + PerMille(g, params.spouse_pension_rate)
               + PerMille(g, params.spouse_pension_rate_employer)

\* Month entry i of a person who is not working: no salary, no
\* contribution; the pension balance moves only by the return and the
\* payout.
IdleMonth1(i) ==
    /\ records[i].salary1_gross = 0
    /\ records[i].salary1_net = 0
    /\ records[i].hishtalmut1 = 0
    /\ records[i].pension1 =
           Pension1Before(i) * (1 + r_month(params)) - records[i].pension1_income
IdleMonth2(i) ==
    /\ records[i].salary2_gross = 0
    /\ records[i].salary2_net = 0
    /\ records[i].hishtalmut2 = 0
    /\ records[i].pension2 =
           Pension2Before(i) * (1 + r_month(params)) - records[i].pension2_income

\* C23: in every month a person is working iff the person's age is below
\* the retirement age; a working person's gross is the schedule-resolved
\* income, the net salary is gross - tax(gross) - gross * employee pension
\* rate - min(gross, cap) * employee supplementary rate, liquid grows by
\* the net salary plus min(gross, cap) * (employee + employer
\* supplementary rates), and the pension balance grows by gross *
\* (employee + employer pension rates), uncapped; a person who is not
\* working has no salary and contributes nothing, so a person whose
\* retirement age is the current age never contributes.  Each product is
\* taken in whole shekels.
C23_SalaryAndContributions ==
    InRun =>
        /\ \A i \in 1..Len(records) :
               /\ records[i].person1_working <=> records[i].age1 < retire_age
               /\ records[i].person2_working <=> records[i].age2 < sra
               /\ IF records[i].person1_working
                  THEN WorkingMonth1(i) ELSE IdleMonth1(i)
               /\ IF records[i].person2_working
                  THEN WorkingMonth2(i) ELSE IdleMonth2(i)
               /\ BalanceEquation(i)
        /\ retire_age = params.age_now =>
               \A i \in 1..Len(records) : IdleMonth1(i)
        /\ sra = params.spouse_age_now =>
               \A i \in 1..Len(records) : IdleMonth2(i)

\* C23's case: a month in which person 1 earns a scheduled income above
\* the salary cap that differs from the base income, with contributions at
\* non-zero rates, followed by a month in which person 1 no longer works.
C23_Witness ==
    /\ InRun
    /\ \E i, j \in 1..Len(records) :
           /\ i < j
           /\ records[i].person1_working
           /\ records[i].salary1_gross # params.gross_income_month
           /\ records[i].salary1_gross > params.hishtalmut_salary_cap
           /\ records[i].hishtalmut1 > 0
           /\ records[i].pension1 > Pension1Before(i) * (1 + r_month(params))
           /\ ~records[j].person1_working


----------------------------------------------------------------------------
(* Pension payout and old-age benefit of a month *)

\* The net of a payout: the part above the tax-free amount is taxed.
NetOfPayout(payout) ==
    payout - calculate_monthly_tax_from_gross(
                 Max(0, payout - params.pension_tax_free_amount))

\* The payouts fixed at activation, from the series: the balance of the
\* activation month before the payout, divided by mekadem.
Payout1 ==
    Pension1AfterContributions(PensionMonth1 + 1) \div params.mekadem
Payout2 ==
    Pension2AfterContributions(PensionMonth2 + 1) \div params.spouse_mekadem

\* Month entry i of a person whose payout is active: gross and net payout,
\* and the balance reduced by the gross payout.
PayoutMonth1(i) ==
    /\ records[i].pension1_income = Payout1
    /\ records[i].pension1_income_net = NetOfPayout(Payout1)
    /\ records[i].pension1 = Pension1AfterContributions(i) - Payout1
PayoutMonth2(i) ==
    /\ records[i].pension2_income = Payout2
    /\ records[i].pension2_income_net = NetOfPayout(Payout2)
    /\ records[i].pension2 = Pension2AfterContributions(i) - Payout2

\* Month entry i of a person whose payout is not active yet.
NoPayoutMonth1(i) ==
    /\ records[i].pension1_income = 0
    /\ records[i].pension1_income_net = 0
    /\ records[i].pension1 = Pension1AfterContributions(i)
NoPayoutMonth2(i) ==
    /\ records[i].pension2_income = 0
    /\ records[i].pension2_income_net = 0
    /\ records[i].pension2 = Pension2AfterContributions(i)

\* The flat old-age benefits of month entry i.
OldAgeBenefit(i) ==
    (IF records[i].age1 >= params.old_age_pension_start_age
     THEN params.old_age_pension_month ELSE 0)
    + (IF records[i].age2 >= params.old_age_pension_start_age
       THEN params.old_age_pension_month ELSE 0)

\* C24: in every month from a person's activation month on the payout's
\* taxable part is max(0, payout - pension_tax_free_amount), per person,
\* liquid grows by payout - tax(taxable part) and the pension balance is
\* reduced by the full gross payout; before it nothing is paid; the flat
\* old-age benefit of each person whose age has reached
\* old_age_pension_start_age is added to liquid untaxed.
C24_PayoutAndOldAge ==
    InRun =>
        \A i \in 1..Len(records) :
            /\ IF i - 1 >= PensionMonth1
               THEN PayoutMonth1(i) ELSE NoPayoutMonth1(i)
            /\ IF i - 1 >= PensionMonth2
               THEN PayoutMonth2(i) ELSE NoPayoutMonth2(i)
            /\ records[i].total_pension_income =
                   records[i].pension1_income_net
                   + records[i].pension2_income_net
            /\ records[i].old_age_pension = OldAgeBenefit(i)
            /\ BalanceEquation(i)

\* C24's case: a month in which person 1's payout exceeds the tax-free
\* amount and is taxed on the excess only, person 2's payout is below the
\* amount and untaxed, and exactly one person draws the old-age benefit.
C24_Witness ==
    /\ InRun
    /\ \E i \in 1..Len(records) :
           /\ i - 1 > PensionMonth1
           /\ i - 1 > PensionMonth2
           /\ params.pension_tax_free_amount > 0
           /\ records[i].pension1_income > params.pension_tax_free_amount
           /\ records[i].pension1_income_net < records[i].pension1_income
           /\ records[i].pension1_income_net
                  > records[i].pension1_income
                    - calculate_monthly_tax_from_gross(
                          records[i].pension1_income)
           /\ records[i].pension2_income > 0
           /\ records[i].pension2_income_net = records[i].pension2_income
           /\ records[i].old_age_pension = params.old_age_pension_month
           /\ params.old_age_pension_month > 0

----------------------------------------------------------------------------
(* Order of the steps of a month *)

\* The steps of a month composed in the order return, salary and
\* contributions, one-time events, pension activation, old-age activation,
\* pension payout, old-age benefit, expense, record, solvency check.
StepsInOrder(s, m) ==
    LET return == ApplyReturns(BeginMonth(s, params, m), params)
        salary ==
            AddNetIncome(SalaryPerson2(SalaryPerson1(return, params, retire_age),
                                       params, sra))
        events == ApplyOneTimeEvents(salary, params)
        activation == ActivatePension2(ActivatePension1(events, params), params)
        old_age == ActivateOldAge(activation, params)
        payout == PensionPayout2(PensionPayout1(old_age, params), params)
        benefit == AddPensionIncome(payout)
        expense == DeductExpense(benefit, params)
        record == AppendRecord(expense)
        solvency == TrackFloor(record, params)
    IN  [f \in Carried |-> solvency[f]]

\* The return of month entry i is earned by the balances carried in, and by
\* no flow of the month: the flows are added unmultiplied.
ReturnOnCarriedOnly(i) ==
    /\ BalanceEquation(i)
    /\ records[i].pension1 =
           Pension1AfterContributions(i) - records[i].pension1_income
    /\ records[i].pension2 =
           Pension2AfterContributions(i) - records[i].pension2_income

\* Activation comes after salary and before payout and benefit: in the
\* activation month the payout is set from the balance after the month's
\* return and contributions and is paid in the same month, and the
\* old-age benefit is paid in the month the age is reached.
ActivationBeforePayout(i) ==
    /\ i - 1 = PensionMonth1 => records[i].pension1_income = Payout1
    /\ i - 1 = PensionMonth2 => records[i].pension2_income = Payout2
    /\ records[i].old_age_pension = OldAgeBenefit(i)

\* C25: within each month the steps run in the order return, salary and
\* contributions, one-time events, pension activation, old-age
\* activation, pension payout, old-age benefit, expense, record, solvency
\* check: the monthly return is applied to liquid and to both pension
\* balances as carried over from the previous month, so the starting
\* balances earn a return in month 0 and no cash flow of month m earns a
\* return in month m, and the solvency check sees the balance after the
\* month's expense has been deducted.
C25_StepOrder ==
    InRun =>
        /\ \A i \in 1..Len(records) :
               /\ records[i].month = i - 1
               /\ ReturnOnCarriedOnly(i)
               /\ ActivationBeforePayout(i)
        /\ Len(records) > FirstPensionMonth =>
               st.liquid_at_first_pension_start =
                   LiquidAfterEvents(FirstPensionMonth + 1)
        /\ st.min_assets_violated <=>
               \E i \in 1..Len(records) : records[i].liquid < params.min_assets
        /\ pc = "loop" /\ LoopContinues(st, params, month) =>
               MonthStep(st, params, retire_age, sra, month)
                   = StepsInOrder(st, month)

\* C25's case: with a positive return, the starting pension balance has
\* earned the return in month 0, and in a later month pension income and
\* old-age benefit are paid and the expense takes the balance, which was
\* at or above the floor before it, below the floor.
C25_Witness ==
    /\ InRun
    /\ r_month(params) > 0
    /\ records # << >>
    /\ params.pension_now > 0
    /\ records[1].pension1 > params.pension_now
    /\ \E i \in 2..Len(records) :
           /\ records[i].total_pension_income > 0
           /\ records[i].old_age_pension > 0
           /\ records[i].monthly_expense > 0
           /\ records[i].liquid < params.min_assets
           /\ records[i].liquid + records[i].monthly_expense >= params.min_assets
    /\ st.min_assets_violated


----------------------------------------------------------------------------
(* Phase of a month *)

\* The position of a phase in the order both_working, one_working, bridge,
\* post_pension.
PhaseRank(phase) ==
    CASE phase = "both_working" -> 1
      [] phase = "one_working" -> 2
      [] phase = "bridge" -> 3
      [] phase = "post_pension" -> 4

\* A pension payout is active in month entry i.
PayoutActive(i) == i - 1 >= PensionMonth1 \/ i - 1 >= PensionMonth2

\* How many of the two people are working in month entry i.
NumWorking(i) ==
    (IF records[i].age1 < retire_age THEN 1 ELSE 0)
    + (IF records[i].age2 < sra THEN 1 ELSE 0)

\* C26: every recorded month has exactly one phase: both_working iff both
\* people are working, one_working iff exactly one is working, bridge iff
\* neither is working and neither pension payout is active, post_pension
\* iff neither is working and at least one payout is active; over the
\* months of a run the phase never moves backwards in the order
\* both_working, one_working, bridge, post_pension.
C26_PhaseClassification ==
    InRun =>
        /\ \A i \in 1..Len(records) :
               /\ records[i].phase \in
                      {"both_working", "one_working", "bridge", "post_pension"}
               /\ records[i].phase = "both_working" <=> NumWorking(i) = 2
               /\ records[i].phase = "one_working" <=> NumWorking(i) = 1
               /\ records[i].phase = "bridge" <=>
                      NumWorking(i) = 0 /\ ~PayoutActive(i)
               /\ records[i].phase = "post_pension" <=>
                      NumWorking(i) = 0 /\ PayoutActive(i)
        /\ \A i, j \in 1..Len(records) :
               i < j => PhaseRank(records[i].phase) <= PhaseRank(records[j].phase)

\* C26's case: a run in which both people worked, then a bridge month
\* followed, and then a month with a payout active.
C26_Witness ==
    /\ InRun
    /\ \E i, j, k \in 1..Len(records) :
           /\ i < j /\ j < k
           /\ records[i].phase = "both_working"
           /\ records[j].phase = "bridge"
           /\ records[k].phase = "post_pension"


----------------------------------------------------------------------------
(* Salary and pension payout of one person *)

\* C27: in every recorded month of a validated run no person is at the
\* same time working and receiving pension payout: a person's working flag
\* is false in every month in which that person's payout is active, so
\* salary and pension income of the same person never occur in the same
\* month.
C27_NeverWorkingWithPayout ==
    InRun =>
        \A i \in 1..Len(records) :
            /\ i - 1 >= PensionMonth1 => ~records[i].person1_working
            /\ i - 1 >= PensionMonth2 => ~records[i].person2_working
            /\ records[i].salary1_gross = 0 \/ records[i].pension1_income = 0
            /\ records[i].salary2_gross = 0 \/ records[i].pension2_income = 0
            /\ records[i].salary1_net = 0 \/ records[i].pension1_income_net = 0
            /\ records[i].salary2_net = 0 \/ records[i].pension2_income_net = 0

\* C27's case: person 1 retires exactly at the pension start age, earns a
\* salary in the last month before it and draws the payout, without a
\* salary, in the month it is reached.
C27_Witness ==
    /\ InRun
    /\ retire_age = params.pension_start_age
    /\ \E i \in 2..Len(records) :
           /\ i - 1 = PensionMonth1
           /\ records[i - 1].person1_working
           /\ records[i - 1].salary1_gross > 0
           /\ records[i - 1].pension1_income = 0
           /\ records[i].pension1_income > 0
           /\ records[i].salary1_gross = 0

----------------------------------------------------------------------------
(* Sign of the pension balances *)

\* The starting pension balances, the incomes, the contribution rates and
\* the return rate are all non-negative.
NonNegativeInputs ==
    /\ params.pension_now >= 0 /\ params.spouse_pension_now >= 0
    /\ params.gross_income_month >= 0 /\ params.spouse_gross_income_month >= 0
    /\ \A i \in DOMAIN params.income_schedule :
           params.income_schedule[i][2] >= 0
    /\ \A i \in DOMAIN params.spouse_income_schedule :
           params.spouse_income_schedule[i][2] >= 0
    /\ params.pension_rate >= 0 /\ params.pension_rate_employer >= 0
    /\ params.spouse_pension_rate >= 0
    /\ params.spouse_pension_rate_employer >= 0
    /\ params.r_annual_real >= 0

\* C28: for non-negative starting pension balances, incomes, contribution
\* rates and return rate, each person's pension balance is non-negative in
\* every recorded month, including the months after payout activation: the
\* monthly drawdown of the fixed payout never takes the balance below zero.
C28_PensionNeverNegative ==
    InRun /\ NonNegativeInputs =>
        \A i \in 1..Len(records) :
            records[i].pension1 >= 0 /\ records[i].pension2 >= 0

----------------------------------------------------------------------------
(* find_earliest_retirement and the upper bound *)

\* simulate's result for retiring exactly at the clamped upper bound, with
\* the other person's retirement age as the search holds it.
UpperResult ==
    simulate(ClampedUpper, params,
             << OrDefault(search.args.spouse_retire_age,
                          params.spouse_retire_age) >>)

\* C29: find_earliest_retirement, for any step_months >= 1, evaluates the
\* clamped upper bound max_age itself as its last candidate whenever no
\* earlier candidate is feasible: it never returns (None, None) while
\* retiring exactly at max_age would have been feasible.
C29_UpperBoundTried ==
    EarliestReturned /\ ClampedLower <= ClampedUpper =>
        /\ \/ \E k \in ScanPositions : ScanResult(k).ok
           \/ \E k \in ScanPositions : ScanAge(k) = ClampedUpper
        /\ outcome = << None, None >> => ~UpperResult.ok

----------------------------------------------------------------------------
(* find_earliest_joint_retirement and retiring immediately *)

\* The call was made with the default bounds.
DefaultBounds == search.args.min_age = None /\ search.args.max_age = None

\* simulate's result for both people retiring immediately.
ImmediateResult ==
    simulate(params.age_now, params, << params.spouse_age_now >>)

\* The primary ages from the current age on, in steps of step_months, that
\* are below age a; the pair of each keeps the age gap and respects both
\* current ages.
EarlierPrimaryAges(a) ==
    { b \in params.age_now..(a - 1) :
        (b - params.age_now) % (search.args.step_months * TicksPerMonth) = 0 }

\* C30: find_earliest_joint_retirement with default bounds evaluates first
\* both people retiring immediately (primary at age_now, secondary at
\* spouse_age_now), whichever of the two is older; when retiring
\* immediately is feasible it is the pair returned, and no feasible pair
\* with a smaller primary age than the returned one exists among the pairs
\* that keep the age gap and respect both current ages.
C30_ImmediateFirst ==
    JointReturned /\ DefaultBounds =>
        /\ ImmediateResult.ok =>
               outcome = << << params.age_now >>, << params.spouse_age_now >>,
                            << ImmediateResult >> >>
        /\ outcome[1] # None =>
               \A b \in EarlierPrimaryAges(outcome[1][1]) :
                   ~simulate(b, params,
                             << JointSpouseAge(b, params.age_now
                                                  - params.spouse_age_now) >>).ok
=============================================================================
